---------------------------- MODULE Spec2Model ----------------------------
(***************************************************************************)
(* pikaatools: snapshot diff engine (pkg/watch comparator), topology       *)
(* derivation (pkg/scanner) modelled as state machines.                    *)
(*                                                                         *)
(* Go values are encoded so that TLA+ equality is reflect.DeepEqual:       *)
(*   string            a TLA+ string                                       *)
(*   bool              a BOOLEAN                                           *)
(*   int32             a natural number                                    *)
(*   []T               [nil : BOOLEAN, elems : Seq(T)]  (nil => elems=<<>>) *)
(*   map[string]string [nil : BOOLEAN, kv : partial function]              *)
(*   time.Time         [wall : string]   (its fields are unexported; a     *)
(*                     monotonic clock reading is part of wall)            *)
(*   struct            function from field name to field value             *)
(***************************************************************************)
EXTENDS Integers, Sequences, FiniteSets, TLC

VARIABLES baseline, current, results, routeTable, igws, subnetType,
          network, phase,
          scans,      \* the ScanNetwork calls made so far: response and snapshot
          file,       \* the working state file
          watcher,    \* the Watcher built by NewWatcher: its scope (vpcID)
          state,      \* the state of Watcher.Watch
          sigChan,    \* signals buffered in sigChan (capacity 1)
          ctxDone,    \* the governing context is cancelled
          tickerC,    \* ticks buffered in ticker.C (capacity 1)
          reports,    \* what the cycles of the watch run reported
          returned    \* the value Watch returned

scanVars == <<scans>>
watchVars == <<file, watcher, state, sigChan, ctxDone, tickerC, reports, returned>>

vars == <<baseline, current, results, routeTable, igws, subnetType,
          network, phase, scanVars, watchVars>>

-----------------------------------------------------------------------------
(* Bounds *)

\* longest resource collection drawn for a snapshot of the diff engine
MaxLen == 2
\* longest route list drawn for a route table
MaxRoutes == 2

-----------------------------------------------------------------------------
(* Generic helpers *)

\* every enumeration order of a finite set (Go map iteration order)
Perms(S) ==
    {s \in [1..Cardinality(S) -> S] : \A i, j \in 1..Cardinality(S) : i # j => s[i] # s[j]}

SeqsUpTo(S, n) == UNION {[1..k -> S] : k \in 0..n}

Range(s) == {s[i] : i \in 1..Len(s)}

\* fmt's %d for the small lengths that occur
Itoa(n) ==
    CASE n = 0 -> "0" [] n = 1 -> "1" [] n = 2 -> "2" [] n = 3 -> "3"
      [] n = 4 -> "4" [] OTHER -> "n"

-----------------------------------------------------------------------------
(* Resource model: pkg/scanner/models.go *)

NilSlice == [nil |-> TRUE, elems |-> <<>>]
MkSlice(s) == [nil |-> FALSE, elems |-> s]
NilMap == [nil |-> TRUE, kv |-> <<>>]
MkMap(f) == [nil |-> FALSE, kv |-> f]
ZeroTime == [wall |-> "t0"]

F(n, k) == [name |-> n, kind |-> k, exported |-> TRUE]

\* the struct types of the ten collections, and time.Time
StructFields(structType) ==
    CASE structType = "VPC" ->
           << F("ID", "string"), F("Name", "string"), F("CidrBlock", "string"),
              F("State", "string"), F("IsDefault", "bool"),
              F("DhcpOptionsID", "string"), F("Tags", "map"),
              F("Subnets", "slice"), F("SecurityGroups", "slice"),
              F("InternetGateways", "slice"), F("NATGateways", "slice"),
              F("NetworkAcls", "slice") >>
      [] structType = "Subnet" ->
           << F("ID", "string"), F("Name", "string"), F("VpcID", "string"),
              F("CidrBlock", "string"), F("AvailabilityZone", "string"),
              F("State", "string"), F("MapPublicIP", "bool"), F("Tags", "map"),
              F("RouteTableID", "string"), F("NetworkAclID", "string"),
              F("Type", "string") >>
      [] structType = "PeeringConnection" ->
           << F("ID", "string"), F("Name", "string"),
              F("RequesterVpcID", "string"), F("AccepterVpcID", "string"),
              F("Status", "string"), F("Tags", "map") >>
      [] structType = "TransitGateway" ->
           << F("ID", "string"), F("Name", "string"), F("State", "string"),
              F("Tags", "map"), F("Attachments", "slice") >>
      [] structType = "InternetGateway" ->
           << F("ID", "string"), F("Name", "string"), F("VpcID", "string"),
              F("State", "string"), F("Tags", "map") >>
      [] structType = "NATGateway" ->
           << F("ID", "string"), F("Name", "string"), F("VpcID", "string"),
              F("SubnetID", "string"), F("State", "string"),
              F("PublicIP", "string"), F("PrivateIP", "string"),
              F("ConnectivityType", "string"), F("Tags", "map") >>
      [] structType = "RouteTable" ->
           << F("ID", "string"), F("Name", "string"), F("VpcID", "string"),
              F("IsMain", "bool"), F("Tags", "map"), F("Routes", "slice"),
              F("Associations", "slice") >>
      [] structType = "SecurityGroup" ->
           << F("ID", "string"), F("Name", "string"), F("Description", "string"),
              F("VpcID", "string"), F("Tags", "map"),
              F("IngressRules", "slice"), F("EgressRules", "slice") >>
      [] structType = "IAMRole" ->
           << F("ID", "string"), F("Name", "string"), F("Path", "string"),
              F("Arn", "string"), F("Description", "string"),
              F("CreateDate", "struct"),
              F("AssumeRolePolicyDocument", "string"),
              F("MaxSessionDuration", "int32"), F("Tags", "map"),
              F("AttachedPolicies", "slice"), F("InlinePolicies", "slice") >>
      [] structType = "NetworkAcl" ->
           << F("ID", "string"), F("Name", "string"), F("VpcID", "string"),
              F("IsDefault", "bool"), F("Tags", "map"), F("Entries", "slice"),
              F("Associations", "slice") >>
      [] structType = "Time" ->
           << [name |-> "wall", kind |-> "uint64", exported |-> FALSE] >>

\* the struct type of a struct-kinded field (only time.Time occurs)
FieldStructType(structType, fieldName) == "Time"

FieldNames(structType) ==
    {StructFields(structType)[i].name : i \in 1..Len(StructFields(structType))}

ZeroValue(kind) ==
    CASE kind = "string" -> ""
      [] kind = "bool" -> FALSE
      [] kind = "int32" -> 0
      [] kind = "map" -> NilMap
      [] kind = "slice" -> NilSlice
      [] kind = "struct" -> ZeroTime

FieldKind(structType, fieldName) ==
    LET fs == StructFields(structType)
    IN  fs[CHOOSE i \in 1..Len(fs) : fs[i].name = fieldName].kind

\* the Go zero value of a resource struct, with the given ID
ZeroResource(structType, id) ==
    [f \in FieldNames(structType) |->
        IF f = "ID" THEN id ELSE ZeroValue(FieldKind(structType, f))]

\* an IAMPolicy as held in IAMRole.AttachedPolicies (the fields that vary)
IAMPolicy(name, created, updated) ==
    [PolicyName |-> name, CreateDate |-> [wall |-> created],
     UpdateDate |-> [wall |-> updated]]

-----------------------------------------------------------------------------
(* Diff engine: pkg/watch comparator *)

Added == "Added"
Removed == "Removed"
Modified == "Modified"

\* strings.ToLower of the resource type labels
ToLower(resourceType) ==
    CASE resourceType = "VPC" -> "vpc"
      [] resourceType = "Subnet" -> "subnet"
      [] resourceType = "SecurityGroup" -> "securitygroup"
      [] resourceType = "NetworkACL" -> "networkacl"
      [] resourceType = "RouteTable" -> "routetable"
      [] resourceType = "PeeringConnection" -> "peeringconnection"
      [] resourceType = "TransitGateway" -> "transitgateway"
      [] resourceType = "InternetGateway" -> "internetgateway"
      [] resourceType = "NATGateway" -> "natgateway"
      [] resourceType = "IAMRole" -> "iamrole"

Difference(type, resourceType, id, description, details) ==
    [Type |-> type, ResourceType |-> resourceType, ResourceID |-> id,
     Description |-> description, Details |-> details]

\* one line of Difference.Details: the field path and the formatted text
Detail(path, key, what, old, new) ==
    [path |-> path, key |-> key, what |-> what, old |-> old, new |-> new]

reflectDeepEqual(x, y) == x = y

\* fmt's %v of a scalar field
FormatValue(kind, v) ==
    CASE kind = "bool" -> (IF v THEN "true" ELSE "false")
      [] kind = "int32" -> Itoa(v)
      [] OTHER -> v

shouldSkipField(fieldName) ==
    \E i \in 1..3 : fieldName = <<"ScanTime", "CreateDate", "UpdateDate">>[i]

compareSlicesReflect_lengthOnly(baselineV, currentV, path) ==
    (IF Len(baselineV.elems) # Len(currentV.elems)
       THEN << Detail(path, "", "length changed",
                      Itoa(Len(baselineV.elems)), Itoa(Len(currentV.elems))) >>
       ELSE << >>)
    \o
    (IF Len(baselineV.elems) # Len(currentV.elems)
       THEN << Detail(path, "", "slice contents changed", "", "") >>
       ELSE << >>)

\* the two detail lines a slice-kinded field can yield
compareSlicesReflect(baselineV, currentV, path) ==
    (IF Len(baselineV.elems) # Len(currentV.elems)
       THEN << Detail(path, "", "length changed",
                      Itoa(Len(baselineV.elems)), Itoa(Len(currentV.elems))) >>
       ELSE << >>)
    \o
    (IF Len(baselineV.elems) # Len(currentV.elems)
          \/ ~reflectDeepEqual(baselineV, currentV)
       THEN << Detail(path, "", "slice contents changed", "", "") >>
       ELSE << >>)

\* the detail lists compareMaps can return: MapKeys() has no specified order
compareMaps_addedKeysOnly(baselineV, currentV, path) ==
    LET bKeys == DOMAIN baselineV.kv
        cKeys == DOMAIN currentV.kv
        removedLine(k) == Detail(path, k, "key removed", "", "")
        currentLine(k) ==
            IF k \notin bKeys
              THEN << Detail(path, k, "key added with value", "", currentV.kv[k]) >>
              ELSE IF ~reflectDeepEqual(baselineV.kv[k], currentV.kv[k])
                     THEN << Detail(path, k, "changed", baselineV.kv[k], currentV.kv[k]) >>
                     ELSE << >>
        RECURSIVE firstLoop(_, _)
        firstLoop(keys, i) ==
            IF i > Len(keys) THEN << >>
            ELSE firstLoop(keys, i + 1)
        RECURSIVE secondLoop(_, _)
        secondLoop(keys, i) ==
            IF i > Len(keys) THEN << >>
            ELSE currentLine(keys[i]) \o secondLoop(keys, i + 1)
    IN  {firstLoop(kb, 1) \o secondLoop(kc, 1) : kb \in Perms(bKeys), kc \in Perms(cKeys)}

compareMaps(baselineV, currentV, path) ==
    LET bKeys == DOMAIN baselineV.kv
        cKeys == DOMAIN currentV.kv
        removedLine(k) == Detail(path, k, "key removed", "", "")
        currentLine(k) ==
            IF k \notin bKeys
              THEN << Detail(path, k, "key added with value", "", currentV.kv[k]) >>
              ELSE IF ~reflectDeepEqual(baselineV.kv[k], currentV.kv[k])
                     THEN << Detail(path, k, "changed", baselineV.kv[k], currentV.kv[k]) >>
                     ELSE << >>
        RECURSIVE firstLoop(_, _)
        firstLoop(keys, i) ==
            IF i > Len(keys) THEN << >>
            ELSE (IF keys[i] \notin cKeys THEN << removedLine(keys[i]) >> ELSE << >>)
                 \o firstLoop(keys, i + 1)
        RECURSIVE secondLoop(_, _)
        secondLoop(keys, i) ==
            IF i > Len(keys) THEN << >>
            ELSE currentLine(keys[i]) \o secondLoop(keys, i + 1)
    IN  {firstLoop(kb, 1) \o secondLoop(kc, 1) : kb \in Perms(bKeys), kc \in Perms(cKeys)}

\* the detail lists compareStructs can return for two values of one struct type
RECURSIVE compareStructs(_, _, _, _)
compareStructs(structType, baselineV, currentV, path) ==
    LET fields == StructFields(structType)
        fieldDetails(field) ==
            LET fieldPath == path \o << field.name >>
                baselineField == baselineV[field.name]
                currentField == currentV[field.name]
            IN  IF ~field.exported \/ shouldSkipField(field.name)
                  THEN {<< >>}
                ELSE IF reflectDeepEqual(baselineField, currentField)
                  THEN {<< >>}
                ELSE CASE field.kind = "struct" ->
                            compareStructs(FieldStructType(structType, field.name),
                                           baselineField, currentField, fieldPath)
                       [] field.kind = "slice" ->
                            {compareSlicesReflect(baselineField, currentField, fieldPath)}
                       [] field.kind = "map" ->
                            compareMaps(baselineField, currentField, fieldPath)
                       [] OTHER ->
                            {<< Detail(fieldPath, "", "changed",
                                       FormatValue(field.kind, baselineField),
                                       FormatValue(field.kind, currentField)) >>}
        RECURSIVE walk(_)
        walk(i) ==
            IF i > Len(fields) THEN {<< >>}
            ELSE {x \o y : x \in fieldDetails(fields[i]), y \in walk(i + 1)}
    IN  walk(1)

\* resources are structs of one type: the reflect.Struct case
findObjectDifferences(structType, baselineItem, currentItem) ==
    compareStructs(structType, baselineItem, currentItem, << >>)

\* baselineMap / currentMap: a later record replaces an earlier one of the same id
indexByID(slice) ==
    [id \in {slice[i].ID : i \in 1..Len(slice)} |->
        slice[CHOOSE i \in 1..Len(slice) :
                 slice[i].ID = id /\ \A j \in (i + 1)..Len(slice) : slice[j].ID # id]]

\* "Find added items": the body of the first range loop for one id
addedDifference_withoutLookup(resourceType, id, baselineMap, currentMap) ==
    << Difference(Added, resourceType, id,
                  << "New", ToLower(resourceType), "created" >>, << >>) >>

addedDifference_lookupInCurrent(resourceType, id, baselineMap, currentMap) ==
    IF id \notin DOMAIN currentMap
      THEN << Difference(Added, resourceType, id,
                         << "New", ToLower(resourceType), "created" >>, << >>) >>
      ELSE << >>

addedDifference(resourceType, id, baselineMap, currentMap) ==
    IF id \notin DOMAIN baselineMap
      THEN << Difference(Added, resourceType, id,
                         << "New", ToLower(resourceType), "created" >>, << >>) >>
      ELSE << >>

\* "Find removed items": the body of the second range loop for one id
removedDifference_lookupInBaseline(resourceType, id, baselineMap, currentMap) ==
    IF id \notin DOMAIN baselineMap
      THEN << Difference(Removed, resourceType, id,
                         << ToLower(resourceType), "was deleted" >>, << >>) >>
      ELSE << >>

removedDifference(resourceType, id, baselineMap, currentMap) ==
    IF id \notin DOMAIN currentMap
      THEN << Difference(Removed, resourceType, id,
                         << ToLower(resourceType), "was deleted" >>, << >>) >>
      ELSE << >>

\* "Find modified items": what the third range loop appends for one id, given
\* the details findObjectDifferences returned
modifiedDifference_noLenCheck(resourceType, id, details) ==
    << Difference(Modified, resourceType, id,
                  << ToLower(resourceType), "configuration changed" >>, details) >>

modifiedDifference(resourceType, id, details) ==
    IF Len(details) > 0
      THEN << Difference(Modified, resourceType, id,
                         << ToLower(resourceType), "configuration changed" >>, details) >>
      ELSE << >>

\* the Difference lists compareSlices can return, one per choice of the
\* iteration orders of its three range-over-map loops
compareSlices(resourceType, structType, baselineSlice, currentSlice) ==
    LET baselineMap == indexByID(baselineSlice)
        currentMap == indexByID(currentSlice)
        modifiedOne(id) ==
            IF id \in DOMAIN baselineMap
              THEN {modifiedDifference(resourceType, id, details) :
                    details \in findObjectDifferences(structType, baselineMap[id], currentMap[id])}
              ELSE {<< >>}
        RECURSIVE addedLoop(_, _)
        addedLoop(ids, i) ==
            IF i > Len(ids) THEN << >>
            ELSE addedDifference(resourceType, ids[i], baselineMap, currentMap)
                 \o addedLoop(ids, i + 1)
        RECURSIVE removedLoop(_, _)
        removedLoop(ids, i) ==
            IF i > Len(ids) THEN << >>
            ELSE removedDifference(resourceType, ids[i], baselineMap, currentMap)
                 \o removedLoop(ids, i + 1)
        RECURSIVE modifiedLoop(_, _)
        modifiedLoop(ids, i) ==
            IF i > Len(ids) THEN {<< >>}
            ELSE {x \o y : x \in modifiedOne(ids[i]), y \in modifiedLoop(ids, i + 1)}
    IN  {addedLoop(o1, 1) \o removedLoop(o2, 1) \o m :
            o1 \in Perms(DOMAIN currentMap), o2 \in Perms(DOMAIN baselineMap),
            m \in UNION {modifiedLoop(o3, 1) : o3 \in Perms(DOMAIN currentMap)}}

compareVPCs(b, c) == compareSlices("VPC", "VPC", b, c)
compareSubnets(b, c) == compareSlices("Subnet", "Subnet", b, c)
compareSecurityGroups(b, c) == compareSlices("SecurityGroup", "SecurityGroup", b, c)
compareNetworkAcls(b, c) == compareSlices("NetworkACL", "NetworkAcl", b, c)
compareRouteTables(b, c) == compareSlices("RouteTable", "RouteTable", b, c)
comparePeeringConnections(b, c) == compareSlices("PeeringConnection", "PeeringConnection", b, c)
compareTransitGateways(b, c) == compareSlices("TransitGateway", "TransitGateway", b, c)
compareInternetGateways(b, c) == compareSlices("InternetGateway", "InternetGateway", b, c)
compareNATGateways(b, c) == compareSlices("NATGateway", "NATGateway", b, c)
compareIAMRoles(b, c) == compareSlices("IAMRole", "IAMRole", b, c)

\* X ++ Y for sets of lists: every list of X followed by every list of Y
Append2(X, Y) == {x \o y : x \in X, y \in Y}

Compare_aclsBeforeGroups(b, c) ==
    Append2(Append2(Append2(Append2(Append2(Append2(Append2(Append2(Append2(
        compareVPCs(b.VPCs, c.VPCs),
        compareSubnets(b.Subnets, c.Subnets)),
        compareNetworkAcls(b.NetworkAcls, c.NetworkAcls)),
        compareSecurityGroups(b.SecurityGroups, c.SecurityGroups)),
        compareRouteTables(b.RouteTables, c.RouteTables)),
        comparePeeringConnections(b.PeeringConnections, c.PeeringConnections)),
        compareTransitGateways(b.TransitGateways, c.TransitGateways)),
        compareInternetGateways(b.InternetGateways, c.InternetGateways)),
        compareNATGateways(b.NATGateways, c.NATGateways)),
        compareIAMRoles(b.IAMRoles, c.IAMRoles))

\* the Difference lists Compare can return for a pair of snapshots
Compare(b, c) ==
    Append2(Append2(Append2(Append2(Append2(Append2(Append2(Append2(Append2(
        compareVPCs(b.VPCs, c.VPCs),
        compareSubnets(b.Subnets, c.Subnets)),
        compareSecurityGroups(b.SecurityGroups, c.SecurityGroups)),
        compareNetworkAcls(b.NetworkAcls, c.NetworkAcls)),
        compareRouteTables(b.RouteTables, c.RouteTables)),
        comparePeeringConnections(b.PeeringConnections, c.PeeringConnections)),
        compareTransitGateways(b.TransitGateways, c.TransitGateways)),
        compareInternetGateways(b.InternetGateways, c.InternetGateways)),
        compareNATGateways(b.NATGateways, c.NATGateways)),
        compareIAMRoles(b.IAMRoles, c.IAMRoles))


-----------------------------------------------------------------------------
(* Inputs of the diff engine *)

IDs == {"a", "b"}

\* collection field of scanner.Network -> <<resource type label, struct type>>
Collections ==
    << <<"VPCs", "VPC", "VPC">>,
       <<"Subnets", "Subnet", "Subnet">>,
       <<"SecurityGroups", "SecurityGroup", "SecurityGroup">>,
       <<"NetworkAcls", "NetworkACL", "NetworkAcl">>,
       <<"RouteTables", "RouteTable", "RouteTable">>,
       <<"PeeringConnections", "PeeringConnection", "PeeringConnection">>,
       <<"TransitGateways", "TransitGateway", "TransitGateway">>,
       <<"InternetGateways", "InternetGateway", "InternetGateway">>,
       <<"NATGateways", "NATGateway", "NATGateway">>,
       <<"IAMRoles", "IAMRole", "IAMRole">> >>

CollectionNames == {Collections[i][1] : i \in 1..Len(Collections)}

\* a scanner.Network with every collection nil
EmptyNetwork ==
    [c \in CollectionNames \cup {"ScanTime", "Region"} |->
        IF c = "ScanTime" THEN ZeroTime ELSE IF c = "Region" THEN "r" ELSE << >>]

\* the zero scanner.Network; it stands for the nil *Network that a failed
\* ScanNetwork returns, which no snapshot equals (ScanTime is never zero)
ZeroNetwork == [EmptyNetwork EXCEPT !.Region = ""]

\* the fields whose values vary in the drawn resources; the others keep
\* their zero value
VariedFields(structType) ==
    CASE structType = "VPC" -> {"Name", "IsDefault", "Tags", "Subnets"}
      [] structType = "Subnet" -> {"Name", "MapPublicIP", "Tags", "Type"}
      [] structType = "SecurityGroup" -> {"Name", "Tags", "IngressRules"}
      [] structType = "NetworkAcl" -> {"Name", "IsDefault", "Tags", "Entries"}
      [] structType = "RouteTable" -> {"Name", "IsMain", "Tags", "Routes"}
      [] structType = "PeeringConnection" -> {"Name", "Status", "Tags"}
      [] structType = "TransitGateway" -> {"Name", "Tags", "Attachments"}
      [] structType = "InternetGateway" -> {"Name", "VpcID", "Tags"}
      [] structType = "NATGateway" -> {"Name", "PublicIP", "Tags"}
      [] structType = "IAMRole" ->
           {"Name", "CreateDate", "MaxSessionDuration", "Tags", "AttachedPolicies"}

\* the non-zero values drawn for a field
VariedValues(structType, fieldName) ==
    LET kind == FieldKind(structType, fieldName)
    IN  CASE kind = "string" -> {"x"}
          [] kind = "bool" -> {TRUE}
          [] kind = "int32" -> {1}
          [] kind = "struct" -> {[wall |-> "t1"]}
          [] kind = "map" ->
               {MkMap(<< >>), MkMap("k1" :> "v1"), MkMap("k1" :> "v2"),
                MkMap("k1" :> "v1" @@ "k2" :> "v2")}
          [] kind = "slice" ->
               IF fieldName = "AttachedPolicies"
                 THEN {MkSlice(<< >>),
                       MkSlice(<< IAMPolicy("p", "t0", "t0") >>),
                       MkSlice(<< IAMPolicy("p", "t1", "t0") >>),
                       MkSlice(<< IAMPolicy("p", "t0", "t1") >>),
                       MkSlice(<< IAMPolicy("p", "t0", "t0"), IAMPolicy("q", "t0", "t0") >>)}
                 ELSE {MkSlice(<< >>), MkSlice(<< "e1" >>), MkSlice(<< "e2" >>),
                       MkSlice(<< "e1", "e2" >>)}

\* resources of one struct type and id: the zero resource, and the zero
\* resource with one varied field set
Variants(structType, id) ==
    {ZeroResource(structType, id)}
    \cup {[ZeroResource(structType, id) EXCEPT ![f] = v] :
            <<f, v>> \in UNION {{<<g, w>> : w \in VariedValues(structType, g)} :
                                g \in VariedFields(structType)}}

\* family 1: one collection of up to MaxLen resources over two ids, one of
\* them either zero or renamed (added / removed / modified / repeated ids)
IdInputs ==
    UNION {
      LET z(id) == ZeroResource(Collections[i][3], id)
          U == {z("a"), [z("a") EXCEPT !["Name"] = "x"], z("b")}
      IN  {<<[EmptyNetwork EXCEPT ![Collections[i][1]] = bs],
             [EmptyNetwork EXCEPT ![Collections[i][1]] = cs]>> :
              bs \in SeqsUpTo(U, MaxLen), cs \in SeqsUpTo(U, MaxLen)}
      : i \in 1..Len(Collections)}

\* family 1b: one collection of exactly two resources on each side, both ids
\* either zero or renamed (several added / removed / modified at once)
PairInputs ==
    UNION {
      LET z(id) == ZeroResource(Collections[i][3], id)
          U == {z(id) : id \in IDs} \cup {[z(id) EXCEPT !["Name"] = "x"] : id \in IDs}
      IN  {<<[EmptyNetwork EXCEPT ![Collections[i][1]] = bs],
             [EmptyNetwork EXCEPT ![Collections[i][1]] = cs]>> :
              bs \in [1..2 -> U], cs \in [1..2 -> U]}
      : i \in 1..Len(Collections)}

\* family 2: one resource on each side, same id, any two variants
FieldInputs ==
    UNION {
      {<<[EmptyNetwork EXCEPT ![Collections[i][1]] = << r1 >>],
         [EmptyNetwork EXCEPT ![Collections[i][1]] = << r2 >>]>> :
          r1 \in Variants(Collections[i][3], "a"), r2 \in Variants(Collections[i][3], "a")}
      : i \in 1..Len(Collections)}

\* family 3: two non-empty collections of different types
TypeInputs ==
    UNION {
      LET zi == ZeroResource(Collections[i][3], "a")
          zj == ZeroResource(Collections[j][3], "a")
          B(z) == {<< >>, << z >>}
          C(z) == {<< >>, << z >>, << [z EXCEPT !["Name"] = "x"] >>}
      IN  {<<[EmptyNetwork EXCEPT ![Collections[i][1]] = bi, ![Collections[j][1]] = bj],
             [EmptyNetwork EXCEPT ![Collections[i][1]] = ci, ![Collections[j][1]] = cj,
                                 !["ScanTime"] = [wall |-> "t1"]]>> :
              bi \in B(zi), bj \in B(zj), ci \in C(zi), cj \in C(zj)}
      : <<i, j>> \in {p \in (1..Len(Collections)) \X (1..Len(Collections)) : p[1] < p[2]}}

CompareInputs == IdInputs \cup PairInputs \cup FieldInputs \cup TypeInputs

-----------------------------------------------------------------------------
(* Specification of the diff engine: Compare applied to drawn snapshot pairs *)

Idle == "idle"

\* the working state file before it is written
NoFile == [exists |-> FALSE, data |-> << >>]

\* no ScanNetwork call made; no watch run started
NoScan == scans = << >>
NoWatch ==
    /\ file = NoFile /\ watcher = [vpcID |-> ""]
    /\ state = Idle /\ sigChan = 0 /\ ctxDone = FALSE
    /\ tickerC = 0 /\ reports = << >> /\ returned = "running"

InitCompare ==
    /\ \E p \in CompareInputs : baseline = p[1] /\ current = p[2]
    /\ results = << >>
    /\ routeTable = << >> /\ igws = << >> /\ subnetType = ""
    /\ network = EmptyNetwork /\ phase = Idle
    /\ NoScan /\ NoWatch

\* one call of Comparator.Compare(baseline, current); results keeps the
\* lists returned by the last two calls
CompareStep ==
    /\ \E differences \in Compare(baseline, current) :
          results' = IF Len(results) < 2 THEN Append(results, differences)
                     ELSE << results[2], differences >>
    /\ UNCHANGED <<baseline, current, routeTable, igws, subnetType, network, phase,
                   scanVars, watchVars>>

NextCompare == CompareStep

SpecCompare == InitCompare /\ [][NextCompare]_vars

\* the list returned by the latest call
differences == results[Len(results)]
called == Len(results) > 0


-----------------------------------------------------------------------------
(* Properties of the diff engine, checked under SpecCompare *)

ResourceTypeOrder ==
    << "VPC", "Subnet", "SecurityGroup", "NetworkACL", "RouteTable",
       "PeeringConnection", "TransitGateway", "InternetGateway", "NATGateway",
       "IAMRole" >>

TimestampFields == {"ScanTime", "CreateDate", "UpdateDate"}

CollIndex == 1..Len(Collections)
IdsOf(slice) == {slice[k].ID : k \in 1..Len(slice)}
Occurrences(slice, id) == {k \in 1..Len(slice) : slice[k].ID = id}
Once(slice, id) == Cardinality(Occurrences(slice, id)) = 1
TheOne(slice, id) == slice[CHOOSE k \in 1..Len(slice) : slice[k].ID = id]

\* positions in list d of the Differences of one kind, resource type and id
Reported(d, kind, resourceType, id) ==
    {k \in 1..Len(d) : /\ d[k].Type = kind
                       /\ d[k].ResourceType = resourceType
                       /\ d[k].ResourceID = id}
ReportedAny(d, resourceType, id) ==
    {k \in 1..Len(d) : d[k].ResourceType = resourceType /\ d[k].ResourceID = id}

\* slice s without its k-th element
Without(s, k) == SubSeq(s, 1, k - 1) \o SubSeq(s, k + 1, Len(s))

\* C1: Compare(S, S) returns an empty Difference list, whatever the ten
\* collections of S hold.
C1_SelfCompareEmpty ==
    (called /\ baseline = current) => differences = << >>

C1_Witness ==
    /\ called /\ baseline = current
    /\ \E i \in CollIndex : Len(baseline[Collections[i][1]]) >= 2

\* C2: for every resource type, each id in current but not in baseline gets
\* exactly one Added Difference and no other id gets one; when current is
\* baseline plus one new resource the whole list is that one Added Difference.
C2_AddedExactly ==
    called =>
      /\ \A k \in 1..Len(differences) :
            differences[k].Type = Added =>
              \E i \in CollIndex :
                 /\ differences[k].ResourceType = Collections[i][2]
                 /\ differences[k].ResourceID \in IdsOf(current[Collections[i][1]])
                                               \ IdsOf(baseline[Collections[i][1]])
      /\ \A i \in CollIndex :
            \A id \in IdsOf(current[Collections[i][1]]) \ IdsOf(baseline[Collections[i][1]]) :
               Cardinality(Reported(differences, Added, Collections[i][2], id)) = 1
      /\ \A i \in CollIndex :
            LET b == baseline[Collections[i][1]]
                c == current[Collections[i][1]]
            IN  \A k \in 1..Len(c) :
                  ( /\ Without(c, k) = b
                    /\ c[k].ID \notin IdsOf(b)
                    /\ \A j \in CollIndex \ {i} :
                          baseline[Collections[j][1]] = current[Collections[j][1]] )
                  => /\ Len(differences) = 1
                     /\ differences[1].Type = Added
                     /\ differences[1].ResourceType = Collections[i][2]
                     /\ differences[1].ResourceID = c[k].ID

C2_Witness ==
    /\ called
    /\ \E i \in CollIndex :
          LET b == baseline[Collections[i][1]]
              c == current[Collections[i][1]]
          IN  /\ Len(b) >= 1
              /\ \E k \in 1..Len(c) : Without(c, k) = b /\ c[k].ID \notin IdsOf(b)
    /\ Len(differences) = 1 /\ differences[1].Type = Added

\* C3: for every resource type, each id in baseline but not in current gets
\* exactly one Removed Difference and no other id gets one; removing one
\* resource from an otherwise identical snapshot yields exactly that one
\* Removed Difference.
C3_RemovedExactly ==
    called =>
      /\ \A k \in 1..Len(differences) :
            differences[k].Type = Removed =>
              \E i \in CollIndex :
                 /\ differences[k].ResourceType = Collections[i][2]
                 /\ differences[k].ResourceID \in IdsOf(baseline[Collections[i][1]])
                                               \ IdsOf(current[Collections[i][1]])
      /\ \A i \in CollIndex :
            \A id \in IdsOf(baseline[Collections[i][1]]) \ IdsOf(current[Collections[i][1]]) :
               Cardinality(Reported(differences, Removed, Collections[i][2], id)) = 1
      /\ \A i \in CollIndex :
            LET b == baseline[Collections[i][1]]
                c == current[Collections[i][1]]
            IN  \A k \in 1..Len(b) :
                  ( /\ Without(b, k) = c
                    /\ b[k].ID \notin IdsOf(c)
                    /\ \A j \in CollIndex \ {i} :
                          baseline[Collections[j][1]] = current[Collections[j][1]] )
                  => /\ Len(differences) = 1
                     /\ differences[1].Type = Removed
                     /\ differences[1].ResourceType = Collections[i][2]
                     /\ differences[1].ResourceID = b[k].ID

C3_Witness ==
    /\ called
    /\ \E i \in CollIndex :
          LET b == baseline[Collections[i][1]]
              c == current[Collections[i][1]]
          IN  /\ Len(c) >= 1
              /\ \E k \in 1..Len(b) : Without(b, k) = c /\ b[k].ID \notin IdsOf(c)
    /\ Len(differences) = 1 /\ differences[1].Type = Removed

\* the top-level fields of a resource that take part in the comparison
ComparedFields(structType) == FieldNames(structType) \ TimestampFields

\* the compared fields in which two resources of one type differ
DifferingFields(structType, rb, rc) ==
    {f \in ComparedFields(structType) : rb[f] # rc[f]}

\* a map field that is nil on one side and empty (non-nil) on the other
NilVersusEmptyMap(structType, f, rb, rc) ==
    /\ FieldKind(structType, f) = "map"
    /\ rb[f].nil # rc[f].nil
    /\ DOMAIN rb[f].kv = {} /\ DOMAIN rc[f].kv = {}

\* the statement of C4 for a given notion of "differing fields" D(_,_,_):
\* an id held once by both collections gets exactly one Modified Difference
\* naming every field of D when D is not empty, and no Difference otherwise
ModifiedExactly(D(_, _, _)) ==
    called =>
      \A i \in CollIndex :
        LET b == baseline[Collections[i][1]]
            c == current[Collections[i][1]]
            label == Collections[i][2]
        IN  \A id \in IdsOf(b) \cap IdsOf(c) :
              (Once(b, id) /\ Once(c, id)) =>
                LET fields == D(Collections[i][3], TheOne(b, id), TheOne(c, id))
                IN  IF fields # {}
                      THEN /\ Cardinality(Reported(differences, Modified, label, id)) = 1
                           /\ \A k \in Reported(differences, Modified, label, id) :
                                 \A f \in fields :
                                    \E n \in 1..Len(differences[k].Details) :
                                       differences[k].Details[n].path = << f >>
                      ELSE ReportedAny(differences, label, id) = {}

\* C4 as stated: an id present in both collections gets exactly one Modified
\* Difference, naming every differing field, if some compared field differs,
\* and no Difference at all if none does.
C4_Original == ModifiedExactly(DifferingFields)

DifferingFieldsButNilMaps(structType, rb, rc) ==
    {f \in DifferingFields(structType, rb, rc) : ~NilVersusEmptyMap(structType, f, rb, rc)}

\* C4 amended: as C4, but a map field that is nil in one resource and empty
\* in the other does not count as differing (it yields no detail line).
C4_ModifiedExactly == ModifiedExactly(DifferingFieldsButNilMaps)

C4_Witness ==
    /\ called
    /\ \E i \in CollIndex :
          LET b == baseline[Collections[i][1]]
              c == current[Collections[i][1]]
          IN  \E id \in IdsOf(b) \cap IdsOf(c) :
                /\ Once(b, id) /\ Once(c, id)
                /\ Cardinality(DifferingFieldsButNilMaps(Collections[i][3],
                                    TheOne(b, id), TheOne(c, id))) >= 2
                /\ Cardinality(Reported(differences, Modified, Collections[i][2], id)) = 1

\* a resource with every timestamp-class field, nested ones included, blanked
StripTimestamps(r) ==
    [f \in DOMAIN r |->
        IF f \in TimestampFields THEN ZeroTime
        ELSE IF f = "AttachedPolicies"
          THEN [nil |-> r[f].nil,
                elems |-> [k \in 1..Len(r[f].elems) |->
                             [r[f].elems[k] EXCEPT !.CreateDate = ZeroTime,
                                                   !.UpdateDate = ZeroTime]]]
          ELSE r[f]]

\* C5: two resources of the same id that differ only in timestamp-class
\* fields (ScanTime, CreateDate, UpdateDate), at any nesting depth, yield no
\* Difference.
C5_TimestampsIgnored ==
    called =>
      \A i \in CollIndex :
        LET b == baseline[Collections[i][1]]
            c == current[Collections[i][1]]
        IN  \A id \in IdsOf(b) \cap IdsOf(c) :
              ( /\ Once(b, id) /\ Once(c, id)
                /\ StripTimestamps(TheOne(b, id)) = StripTimestamps(TheOne(c, id)) )
              => ReportedAny(differences, Collections[i][2], id) = {}

\* C6: two calls of Compare on the same pair of snapshots return the same
\* list in the same order.
C6_Deterministic == Len(results) = 2 => results[1] = results[2]

TypeRank(resourceType) ==
    CHOOSE n \in 1..Len(ResourceTypeOrder) : ResourceTypeOrder[n] = resourceType

\* snapshot n with every collection but the i-th emptied
OnlyCollection(n, i) ==
    [c \in DOMAIN n |-> IF c \in CollectionNames \ {Collections[i][1]} THEN << >> ELSE n[c]]

OfType(d, resourceType) == {d[k] : k \in {j \in 1..Len(d) : d[j].ResourceType = resourceType}}

\* C7: the returned Differences are grouped by resource type in the order
\* VPC, Subnet, SecurityGroup, NetworkACL, RouteTable, PeeringConnection,
\* TransitGateway, InternetGateway, NATGateway, IAMRole, and the Differences of
\* one type are those Compare returns when every other collection is empty.
C7_TypeOrder ==
    called =>
      /\ \A j, k \in 1..Len(differences) :
            j < k => TypeRank(differences[j].ResourceType)
                       <= TypeRank(differences[k].ResourceType)
      /\ \A i \in CollIndex :
            IF baseline[Collections[i][1]] = << >> /\ current[Collections[i][1]] = << >>
              THEN OfType(differences, Collections[i][2]) = {}
              ELSE \E d \in Compare(OnlyCollection(baseline, i), OnlyCollection(current, i)) :
                      OfType(differences, Collections[i][2]) = OfType(d, Collections[i][2])

C7_Witness ==
    /\ called
    /\ \E j, k \in 1..Len(differences) :
          j < k /\ differences[j].ResourceType # differences[k].ResourceType


-----------------------------------------------------------------------------
(* Topology derivation: pkg/scanner/scanner.go *)

\* gateway ids are sequences of characters, so that a prefix can be tested
IgwPrefix == << "i", "g", "w", "-" >>
NatPrefix == << "n", "a", "t", "-" >>
DefaultRoute == "0.0.0.0/0"

\* strings.HasPrefix
HasPrefix(str, prefix) ==
    /\ Len(str) >= Len(prefix)
    /\ SubSeq(str, 1, Len(prefix)) = prefix

Route(destinationCidr, gatewayID) ==
    [DestinationCidr |-> destinationCidr, GatewayID |-> gatewayID,
     InstanceID |-> "", NetworkInterfaceID |-> "", VpcPeeringID |-> "",
     TransitGatewayID |-> "", State |-> "active", Origin |-> ""]

\* "Check for internet gateway route": the inner loop over igws for one route
isIGWRoute_anyIgwId(route, gateways) ==
    /\ HasPrefix(route.GatewayID, IgwPrefix)
    /\ route.DestinationCidr = DefaultRoute

isIGWRoute(route, gateways) ==
    /\ HasPrefix(route.GatewayID, IgwPrefix)
    /\ \E k \in 1..Len(gateways) :
          gateways[k].ID = route.GatewayID /\ route.DestinationCidr = DefaultRoute

\* "Check for NAT gateway route"
isNATRoute(route) ==
    HasPrefix(route.GatewayID, NatPrefix) /\ route.DestinationCidr = DefaultRoute

\* the final decision of determineSubnetType on its two flags
subnetTypeOf_natFirst(hasIGWRoute, hasNATRoute) ==
    IF hasNATRoute THEN "private"
    ELSE IF hasIGWRoute THEN "public"
    ELSE "isolated"

subnetTypeOf(hasIGWRoute, hasNATRoute) ==
    IF hasIGWRoute THEN "public"
    ELSE IF hasNATRoute THEN "private"
    ELSE "isolated"

determineSubnetType(rt, gateways) ==
    LET routes == rt.Routes.elems
        RECURSIVE loop(_, _, _)
        loop(i, hasIGWRoute, hasNATRoute) ==
            IF i > Len(routes) THEN subnetTypeOf(hasIGWRoute, hasNATRoute)
            ELSE loop(i + 1,
                      hasIGWRoute \/ isIGWRoute(routes[i], gateways),
                      hasNATRoute \/ isNATRoute(routes[i]))
    IN  loop(1, FALSE, FALSE)

\* index of the first route table explicitly associated with the subnet, 0 if none
explicitRouteTable_lastMatch(nw, subnet) ==
    LET hits == {k \in 1..Len(nw.RouteTables) :
                    \E n \in 1..Len(nw.RouteTables[k].Associations.elems) :
                       nw.RouteTables[k].Associations.elems[n] = subnet.ID}
    IN  IF hits = {} THEN 0 ELSE CHOOSE k \in hits : \A j \in hits : k >= j

explicitRouteTable(nw, subnet) ==
    LET hits == {k \in 1..Len(nw.RouteTables) :
                    \E n \in 1..Len(nw.RouteTables[k].Associations.elems) :
                       nw.RouteTables[k].Associations.elems[n] = subnet.ID}
    IN  IF hits = {} THEN 0 ELSE CHOOSE k \in hits : \A j \in hits : k <= j

\* index of the first main route table of the subnet's VPC, 0 if none
mainRouteTable_anyVpc(nw, subnet) ==
    LET hits == {k \in 1..Len(nw.RouteTables) : nw.RouteTables[k].IsMain}
    IN  IF hits = {} THEN 0 ELSE CHOOSE k \in hits : \A j \in hits : k <= j

mainRouteTable(nw, subnet) ==
    LET hits == {k \in 1..Len(nw.RouteTables) :
                    /\ nw.RouteTables[k].VpcID = subnet.VpcID
                    /\ nw.RouteTables[k].IsMain}
    IN  IF hits = {} THEN 0 ELSE CHOOSE k \in hits : \A j \in hits : k <= j

\* the network after updateSubnetTypes: each subnet gets RouteTableID
\* (when a table resolves) and Type
updateSubnetTypes_recordsAssociation(nw) ==
    LET resolvedFor(subnet) ==
            LET explicit == explicitRouteTable(nw, subnet)
            IN  IF explicit # 0 THEN explicit ELSE mainRouteTable(nw, subnet)
        update(subnet) ==
            IF resolvedFor(subnet) # 0
              THEN [subnet EXCEPT
                      !.RouteTableID = nw.RouteTables[resolvedFor(subnet)].ID,
                      !.Type = determineSubnetType(nw.RouteTables[resolvedFor(subnet)],
                                                   nw.InternetGateways)]
              ELSE [subnet EXCEPT !.Type = "isolated"]
        using(t) == {k \in 1..Len(nw.Subnets) : resolvedFor(nw.Subnets[k]) = t}
        table(t) ==
            IF using(t) = {} THEN nw.RouteTables[t]
            ELSE [nw.RouteTables[t] EXCEPT
                    !.Associations = MkSlice(@.elems \o << nw.Subnets[CHOOSE k \in using(t) : TRUE].ID >>)]
    IN  [nw EXCEPT !.Subnets = [k \in 1..Len(nw.Subnets) |-> update(nw.Subnets[k])],
                   !.RouteTables = [t \in 1..Len(nw.RouteTables) |-> table(t)]]

updateSubnetTypes(nw) ==
    LET update(subnet) ==
            LET explicit == explicitRouteTable(nw, subnet)
                resolved == IF explicit # 0 THEN explicit ELSE mainRouteTable(nw, subnet)
            IN  IF resolved # 0
                  THEN [subnet EXCEPT
                          !.RouteTableID = nw.RouteTables[resolved].ID,
                          !.Type = determineSubnetType(nw.RouteTables[resolved],
                                                       nw.InternetGateways)]
                  ELSE [subnet EXCEPT !.Type = "isolated"]
    IN  [nw EXCEPT !.Subnets = [k \in 1..Len(nw.Subnets) |-> update(nw.Subnets[k])]]

\* a []string or []struct field built by append: nil while nothing is appended
appended(slice, items) ==
    IF items = << >> THEN slice ELSE MkSlice(slice.elems \o items)

\* the ids, in collection order, of the resources of a collection that
\* updateVPCAssociations appends to the lists of the VPC
associated_anyVpc(collection, vpcID) ==
    [k \in 1..Len(collection) |-> collection[k].ID]

associated(collection, vpcID) ==
    LET ofVpc(resource) == resource.VpcID = vpcID
        kept == SelectSeq(collection, ofVpc)
    IN  [k \in 1..Len(kept) |-> kept[k].ID]

\* vpcMap holds, for an id, the last VPC of network.VPCs with that id; the
\* lists of that VPC receive the ids
updateVPCAssociations(nw) ==
    LET inVpcMap(i) == \A j \in 1..Len(nw.VPCs) : nw.VPCs[j].ID = nw.VPCs[i].ID => j <= i
        update(i) ==
            LET vpc == nw.VPCs[i]
            IN  IF ~inVpcMap(i) THEN vpc
                ELSE [vpc EXCEPT
                        !.Subnets = appended(@, associated(nw.Subnets, vpc.ID)),
                        !.InternetGateways =
                            appended(@, associated(nw.InternetGateways, vpc.ID)),
                        !.NATGateways = appended(@, associated(nw.NATGateways, vpc.ID)),
                        !.SecurityGroups =
                            appended(@, associated(nw.SecurityGroups, vpc.ID))]
    IN  [nw EXCEPT !.VPCs = [i \in 1..Len(nw.VPCs) |-> update(i)]]

-----------------------------------------------------------------------------
(* Inputs of the topology derivation *)

Igw1 == IgwPrefix \o << "1" >>
Igw2 == IgwPrefix \o << "2" >>
Nat1 == NatPrefix \o << "1" >>
Local == << "l", "o", "c", "a", "l" >>

InternetGatewayIDs == {Igw1, Igw2}
NATGatewayIDs == {Nat1}
\* what a route's GatewayID can hold: a gateway id, "local", or nothing
GatewayIDs == InternetGatewayIDs \cup NATGatewayIDs \cup {Local, << >>}

Routes == {Route(d, g) : d \in {DefaultRoute, "10.0.0.0/16"}, g \in GatewayIDs}

InternetGatewayOf(id, vpcID) ==
    [ZeroResource("InternetGateway", id) EXCEPT !.VpcID = vpcID, !.Tags = MkMap(<< >>)]

\* the gateway lists passed to determineSubnetType
GatewayLists ==
    LET g1 == InternetGatewayOf(Igw1, "v1")
        g2 == InternetGatewayOf(Igw2, "v1")
    IN  {<< >>, << g1 >>, << g2 >>, << g1, g2 >>, << g2, g1 >>}

RouteTableOf(id, vpcID, isMain, routes, associations) ==
    [ZeroResource("RouteTable", id) EXCEPT
        !.VpcID = vpcID, !.IsMain = isMain, !.Tags = MkMap(<< >>),
        !.Routes = IF routes = << >> THEN NilSlice ELSE MkSlice(routes),
        !.Associations = IF associations = << >> THEN NilSlice ELSE MkSlice(associations)]

-----------------------------------------------------------------------------
(* Specification of the subnet classifier: determineSubnetType applied to
   drawn route tables and gateway lists *)

InitSubnetType ==
    /\ \E routes \in SeqsUpTo(Routes, MaxRoutes) :
          routeTable = RouteTableOf("rt1", "v1", FALSE, routes, << >>)
    /\ igws \in GatewayLists
    /\ subnetType = ""
    /\ baseline = EmptyNetwork /\ current = EmptyNetwork /\ results = << >>
    /\ network = EmptyNetwork /\ phase = Idle
    /\ NoScan /\ NoWatch

DetermineStep ==
    /\ subnetType = ""
    /\ subnetType' = determineSubnetType(routeTable, igws)
    /\ UNCHANGED <<baseline, current, results, routeTable, igws, network, phase,
                   scanVars, watchVars>>

NextSubnetType == DetermineStep

SpecSubnetType == InitSubnetType /\ [][NextSubnetType]_vars


(* Properties of the subnet classifier, checked under SpecSubnetType *)

classified == subnetType # ""
routesOf(rt) == rt.Routes.elems

\* every reordering of a list
Reorderings(list) ==
    {[k \in 1..Len(list) |-> list[p[k]]] : p \in Perms(1..Len(list))}

\* a default route whose gateway id is the id of a gateway of the list
InternetGatewayRoute(route, gateways) ==
    /\ route.GatewayID \in {gateways[k].ID : k \in 1..Len(gateways)}
    /\ route.DestinationCidr = "0.0.0.0/0"

\* a default route whose gateway id names a NAT gateway
NATRoute(route) ==
    route.GatewayID \in NATGatewayIDs /\ route.DestinationCidr = "0.0.0.0/0"

\* C8: determineSubnetType returns public if some route is an internet-gateway
\* default route, else private if some route is a NAT default route, else
\* isolated, and returns the same for every reordering of the route list.
C8_DecisionOrder ==
    classified =>
      /\ subnetType =
           IF \E k \in 1..Len(routesOf(routeTable)) :
                 InternetGatewayRoute(routesOf(routeTable)[k], igws)
             THEN "public"
           ELSE IF \E k \in 1..Len(routesOf(routeTable)) : NATRoute(routesOf(routeTable)[k])
             THEN "private"
           ELSE "isolated"
      /\ \A reordered \in Reorderings(routesOf(routeTable)) :
            determineSubnetType([routeTable EXCEPT !.Routes.elems = reordered], igws)
               = subnetType

\* a table holding a NAT default route before an internet-gateway default route
C8_Witness ==
    /\ subnetType = "public"
    /\ Len(routesOf(routeTable)) >= 2
    /\ NATRoute(routesOf(routeTable)[1])
    /\ InternetGatewayRoute(routesOf(routeTable)[2], igws)

\* C10: the subnet is public exactly when some route has destination
\* 0.0.0.0/0 and a gateway id equal to the id of a gateway of the supplied
\* list; a default route to an absent internet gateway, or a non-default route
\* to a present one, does not make it public.
C10_PublicIffGatewayPresent ==
    classified =>
      ( subnetType = "public"
          <=> \E k \in 1..Len(routesOf(routeTable)) :
                 /\ \E g \in 1..Len(igws) : igws[g].ID = routesOf(routeTable)[k].GatewayID
                 /\ routesOf(routeTable)[k].DestinationCidr = "0.0.0.0/0" )

\* a default route to an internet gateway missing from the list, and a
\* non-default route to one that is in it: not public
C10_Witness ==
    /\ classified /\ subnetType # "public"
    /\ Len(igws) >= 1 /\ Len(routesOf(routeTable)) >= 2
    /\ \E k \in 1..Len(routesOf(routeTable)) :
          /\ routesOf(routeTable)[k].GatewayID \in InternetGatewayIDs
          /\ routesOf(routeTable)[k].DestinationCidr = "0.0.0.0/0"
    /\ \E k \in 1..Len(routesOf(routeTable)) :
          /\ \E g \in 1..Len(igws) : igws[g].ID = routesOf(routeTable)[k].GatewayID
          /\ routesOf(routeTable)[k].DestinationCidr # "0.0.0.0/0"

-----------------------------------------------------------------------------
(* Specification of the derivation step of ScanNetwork: updateSubnetTypes
   applied to the raw collections of a scan *)

\* most subnets / route tables drawn for a scanned network
MaxSubnets == 2
MaxTables == 2

VpcIDs == {"v1", "v2"}
SubnetIDs == << "s1", "s2", "s3" >>
RouteTableIDs == << "rt1", "rt2", "rt3" >>

\* a subnet as scanSubnets builds it: RouteTableID and Type still empty
ScannedSubnet(id, vpcID) ==
    [ZeroResource("Subnet", id) EXCEPT !.VpcID = vpcID, !.Tags = MkMap(<< >>)]

\* the subnet lists of a scan: distinct ids, each subnet in some VPC
ScannedSubnets ==
    UNION {{[k \in 1..n |-> ScannedSubnet(SubnetIDs[k], v[k])] : v \in [1..n -> VpcIDs]} :
           n \in 0..MaxSubnets}

\* the route tables of a scan: distinct ids, each in some VPC, main or not,
\* associated with subnet s1 or with none, with no route or routing 0.0.0.0/0
\* to an internet gateway or to a NAT gateway
ScannedRouteTables ==
    LET shapes == VpcIDs \X BOOLEAN \X {<< >>,
                                        << Route(DefaultRoute, Igw1) >>,
                                        << Route(DefaultRoute, Nat1) >>}
                         \X {<< >>, << "s1" >>}
    IN  UNION {{[k \in 1..n |-> RouteTableOf(RouteTableIDs[k], sh[k][1], sh[k][2],
                                             sh[k][3], sh[k][4])] :
                  sh \in [1..n -> shapes]} :
               n \in 0..MaxTables}

\* the VPCs of a scan as scanVPCs builds them (association lists still nil),
\* and a security group and a NAT gateway of VPC v1
ScannedVPCs ==
    [k \in 1..2 |-> [ZeroResource("VPC", <<"v1", "v2">>[k]) EXCEPT !.Tags = MkMap(<< >>)]]
ScannedSecurityGroups ==
    << [ZeroResource("SecurityGroup", "sg1") EXCEPT !.VpcID = "v1", !.Tags = MkMap(<< >>)] >>
ScannedNATGateways ==
    << [ZeroResource("NATGateway", Nat1) EXCEPT !.VpcID = "v1", !.Tags = MkMap(<< >>)] >>

InitDerive ==
    /\ \E subnets \in ScannedSubnets, tables \in ScannedRouteTables,
          gateways \in {<< >>, << InternetGatewayOf(Igw1, "v1") >>} :
          network = [EmptyNetwork EXCEPT !.VPCs = ScannedVPCs,
                                         !.Subnets = subnets,
                                         !.RouteTables = tables,
                                         !.InternetGateways = gateways,
                                         !.NATGateways = ScannedNATGateways,
                                         !.SecurityGroups = ScannedSecurityGroups]
    /\ phase = "scanned"
    /\ baseline = EmptyNetwork /\ current = EmptyNetwork /\ results = << >>
    /\ routeTable = << >> /\ igws = << >> /\ subnetType = ""
    /\ NoScan /\ NoWatch

\* ScanNetwork: "Update subnet types based on route tables"
UpdateSubnetTypes ==
    /\ phase = "scanned"
    /\ network' = updateSubnetTypes(network)
    /\ phase' = "typed"
    /\ UNCHANGED <<baseline, current, results, routeTable, igws, subnetType,
                   scanVars, watchVars>>

\* ScanNetwork: "Update VPC associations"
UpdateVPCAssociations ==
    /\ phase = "typed"
    /\ network' = updateVPCAssociations(network)
    /\ phase' = "associated"
    /\ UNCHANGED <<baseline, current, results, routeTable, igws, subnetType,
                   scanVars, watchVars>>

NextDerive == UpdateSubnetTypes \/ UpdateVPCAssociations

SpecDerive == InitDerive /\ [][NextDerive]_vars

(* Properties of the derivation step, checked under SpecDerive *)

Resolvable(nw, subnet) ==
    \/ \E k \in 1..Len(nw.RouteTables) :
          subnet.ID \in Range(nw.RouteTables[k].Associations.elems)
    \/ \E k \in 1..Len(nw.RouteTables) :
          nw.RouteTables[k].IsMain /\ nw.RouteTables[k].VpcID = subnet.VpcID

\* C9: after the derivation step every subnet has Type public, private or
\* isolated, and a subnet with no associated route table and no main route
\* table in its VPC is isolated.
C9_ClassificationTotal ==
    phase = "typed" =>
      \A k \in 1..Len(network.Subnets) :
         /\ network.Subnets[k].Type \in {"public", "private", "isolated"}
         /\ ~Resolvable(network, network.Subnets[k])
               => network.Subnets[k].Type = "isolated"

\* a subnet without a resolvable table next to the main table of another
\* VPC that routes to a present internet gateway
C9_Witness ==
    /\ phase = "typed"
    /\ \E k \in 1..Len(network.Subnets) :
          /\ ~Resolvable(network, network.Subnets[k])
          /\ network.Subnets[k].Type = "isolated"
          /\ \E t \in 1..Len(network.RouteTables) :
                /\ network.RouteTables[t].IsMain
                /\ determineSubnetType(network.RouteTables[t], network.InternetGateways)
                     = "public"

-----------------------------------------------------------------------------
(* ScanNetwork: from the responses of the provider to a snapshot *)

\* a nil *string of a provider response
NilPtr == "nil"

\* time.Now(): the n-th reading of the clock; it carries a monotonic clock
\* reading, which WallClock[n] (the same instant, as time.Parse returns it)
\* lacks
WallClock == << "t1", "t2", "t3", "t4", "t5", "t6" >>
MonotonicWalls == << "t1+m", "t2+m", "t3+m", "t4+m", "t5+m", "t6+m" >>
timeNow(n) == [wall |-> MonotonicWalls[n]]

RECURSIVE Flatten(_)
Flatten(lists) == IF lists = << >> THEN << >> ELSE Head(lists) \o Flatten(Tail(lists))

\* `for _, id := range vpcIDs { if id == vpcID {...} }`
relevantVpc(vpcID, vpcIDs) == \E i \in 1..Len(vpcIDs) : vpcIDs[i] = vpcID

\* a call of the provider that returns an error: a listing call (of = ""),
\* or the sub-query made for the resource `of`
FailedCall(call, of) == [call |-> call, of |-> of]
fails(response, call, of) == FailedCall(call, of) \in response.Failed

scanVPCs(response) ==
    [k \in 1..Len(response.Vpcs) |->
        [ZeroResource("VPC", response.Vpcs[k].VpcId) EXCEPT !.Tags = MkMap(<< >>)]]

scanSubnets(response, vpcIDs) ==
    IF Len(vpcIDs) = 0 THEN << >>
    ELSE [k \in 1..Len(response.Subnets) |->
            [ZeroResource("Subnet", response.Subnets[k].SubnetId) EXCEPT
                !.VpcID = response.Subnets[k].VpcId, !.Tags = MkMap(<< >>)]]

\* one InternetGateway record per attachment to a VPC of the scan
scanInternetGateways(response, vpcIDs) ==
    LET relevantIGW(attachment) ==
            attachment.VpcId # NilPtr /\ relevantVpc(attachment.VpcId, vpcIDs)
        records(igw) ==
            LET attachments == SelectSeq(igw.Attachments, relevantIGW)
            IN  [k \in 1..Len(attachments) |->
                    [ZeroResource("InternetGateway", igw.InternetGatewayId) EXCEPT
                        !.VpcID = attachments[k].VpcId, !.Tags = MkMap(<< >>)]]
    IN  Flatten([k \in 1..Len(response.InternetGateways) |->
                    records(response.InternetGateways[k])])

scanNATGateways(response, vpcIDs) ==
    IF Len(vpcIDs) = 0 THEN << >>
    ELSE LET relevantNAT(nat) == nat.VpcId # NilPtr /\ relevantVpc(nat.VpcId, vpcIDs)
             kept == SelectSeq(response.NatGateways, relevantNAT)
         IN  [k \in 1..Len(kept) |->
                 [ZeroResource("NATGateway", kept[k].NatGatewayId) EXCEPT
                     !.VpcID = kept[k].VpcId, !.Tags = MkMap(<< >>)]]

scanRouteTables(response, vpcIDs) ==
    IF Len(vpcIDs) = 0 THEN << >>
    ELSE LET hasSubnet(assoc) == assoc.SubnetId # NilPtr
             table(rt) ==
                 LET subnetAssocs == SelectSeq(rt.Associations, hasSubnet)
                 IN  [ZeroResource("RouteTable", rt.RouteTableId) EXCEPT
                        !.VpcID = rt.VpcId,
                        !.Tags = MkMap(<< >>),
                        !.IsMain = \E k \in 1..Len(rt.Associations) : rt.Associations[k].Main,
                        !.Associations =
                            appended(NilSlice, [k \in 1..Len(subnetAssocs) |->
                                                   subnetAssocs[k].SubnetId]),
                        !.Routes =
                            appended(NilSlice,
                                     [k \in 1..Len(rt.Routes) |->
                                        Route(rt.Routes[k].DestinationCidrBlock,
                                              IF rt.Routes[k].GatewayId = NilPtr THEN << >>
                                              ELSE rt.Routes[k].GatewayId)])]
         IN  [k \in 1..Len(response.RouteTables) |-> table(response.RouteTables[k])]

scanSecurityGroups(response, vpcIDs) ==
    IF Len(vpcIDs) = 0 THEN << >>
    ELSE [k \in 1..Len(response.SecurityGroups) |->
            [ZeroResource("SecurityGroup", response.SecurityGroups[k].GroupId) EXCEPT
                !.VpcID = response.SecurityGroups[k].VpcId, !.Tags = MkMap(<< >>)]]

\* scanTransitGatewayAttachments: nil while no attachment is appended
scanTransitGatewayAttachments(tgw) ==
    appended(NilSlice,
             [k \in 1..Len(tgw.Attachments) |->
                 [ID |-> tgw.Attachments[k].TransitGatewayAttachmentId,
                  TransitGatewayID |-> tgw.TransitGatewayId]])

\* a transit gateway whose attachments cannot be fetched is skipped
scanTransitGateways_keepsOnFailure(response) ==
    [k \in 1..Len(response.TransitGateways) |->
        [ZeroResource("TransitGateway", response.TransitGateways[k].TransitGatewayId) EXCEPT
            !.Tags = MkMap(<< >>),
            !.Attachments =
                IF fails(response, "DescribeTransitGatewayAttachments",
                         response.TransitGateways[k].TransitGatewayId)
                  THEN NilSlice
                  ELSE scanTransitGatewayAttachments(response.TransitGateways[k])]]

scanTransitGateways(response) ==
    LET fetched(tgw) ==
            ~fails(response, "DescribeTransitGatewayAttachments", tgw.TransitGatewayId)
        kept == SelectSeq(response.TransitGateways, fetched)
    IN  [k \in 1..Len(kept) |->
            [ZeroResource("TransitGateway", kept[k].TransitGatewayId) EXCEPT
                !.Tags = MkMap(<< >>),
                !.Attachments = scanTransitGatewayAttachments(kept[k])]]

\* getAttachedRolePolicies: one IAMPolicy per attached policy whose details
\* GetPolicy returns
getAttachedRolePolicies(response, role) ==
    LET detailed(policy) == ~fails(response, "GetPolicy", policy.PolicyName)
        kept == SelectSeq(role.AttachedPolicies, detailed)
    IN  appended(NilSlice,
                 [k \in 1..Len(kept) |->
                     IAMPolicy(kept[k].PolicyName, kept[k].CreateDate, kept[k].UpdateDate)])

\* a role whose attached or inline policies cannot be listed is skipped
\* (no role drawn has inline policies: InlinePolicies stays nil)
scanIAMRoles(response) ==
    LET fetched(role) ==
            /\ ~fails(response, "ListAttachedRolePolicies", role.RoleId)
            /\ ~fails(response, "ListRolePolicies", role.RoleId)
        kept == SelectSeq(response.Roles, fetched)
    IN  [k \in 1..Len(kept) |->
            [ZeroResource("IAMRole", kept[k].RoleId) EXCEPT
                !.CreateDate = [wall |-> kept[k].CreateDate],
                !.MaxSessionDuration = 3600,
                !.Tags = MkMap(<< >>),
                !.AttachedPolicies = getAttachedRolePolicies(response, kept[k])]]

\* the listing calls of ScanNetwork in program order, each with the error
\* ScanNetwork returns when it fails; the calls marked TRUE are made only
\* when DescribeVpcs listed a VPC
ListingCalls ==
    << <<"DescribeVpcs", "failed to scan VPCs", FALSE>>,
       <<"DescribeSubnets", "failed to scan subnets", TRUE>>,
       <<"DescribeVpcPeeringConnections", "failed to scan peering connections", TRUE>>,
       <<"DescribeTransitGateways", "failed to scan transit gateways", FALSE>>,
       <<"DescribeInternetGateways", "failed to scan internet gateways", FALSE>>,
       <<"DescribeNatGateways", "failed to scan NAT gateways", TRUE>>,
       <<"DescribeRouteTables", "failed to scan route tables", TRUE>>,
       <<"DescribeSecurityGroups", "failed to scan security groups", TRUE>>,
       <<"ListRoles", "failed to scan IAM roles", FALSE>> >>

\* the error ScanNetwork returns: that of the first listing call that is
\* made and fails, "" (nil) when none does
scanError(response) ==
    LET failing == {k \in 1..Len(ListingCalls) :
                      /\ fails(response, ListingCalls[k][1], "")
                      /\ ListingCalls[k][3] => Len(response.Vpcs) > 0}
    IN  IF failing = {} THEN ""
        ELSE ListingCalls[CHOOSE k \in failing : \A j \in failing : k <= j][2]

\* the snapshot ScanNetwork returns for the responses of the provider, as
\* the n-th reading of the clock, when no listing call failed
ScanNetwork(response, n) ==
    LET vpcs == scanVPCs(response)
        vpcIDs == [i \in 1..Len(vpcs) |-> vpcs[i].ID]
        scanned == [EmptyNetwork EXCEPT
                      !.ScanTime = timeNow(n),
                      !.VPCs = vpcs,
                      !.Subnets = scanSubnets(response, vpcIDs),
                      !.TransitGateways = scanTransitGateways(response),
                      !.InternetGateways = scanInternetGateways(response, vpcIDs),
                      !.NATGateways = scanNATGateways(response, vpcIDs),
                      !.RouteTables = scanRouteTables(response, vpcIDs),
                      !.SecurityGroups = scanSecurityGroups(response, vpcIDs),
                      !.IAMRoles = scanIAMRoles(response)]
    IN  updateVPCAssociations(updateSubnetTypes(scanned))

-----------------------------------------------------------------------------
(* Inputs of ScanNetwork: the responses of the provider. Every raw resource
   of a response has an id of its own. *)

ProviderResponse(vpcs, subnets, gateways, nats, tables, groups, roles) ==
    [Vpcs |-> vpcs, Subnets |-> subnets, InternetGateways |-> gateways,
     NatGateways |-> nats, RouteTables |-> tables, SecurityGroups |-> groups,
     Roles |-> roles, TransitGateways |-> << >>, Failed |-> {}]

ResponseFields ==
    {"Vpcs", "Subnets", "InternetGateways", "NatGateways", "RouteTables",
     "SecurityGroups", "Roles", "TransitGateways"}

\* DescribeVpcs: one VPC, or two
RawVpcLists == {<< [VpcId |-> "v1"] >>, << [VpcId |-> "v1"], [VpcId |-> "v2"] >>}

\* DescribeSubnets: up to MaxSubnets subnets, each in a VPC of the scan
RawSubnetLists(vpcs) ==
    UNION {{[k \in 1..n |-> [SubnetId |-> SubnetIDs[k], VpcId |-> v[k].VpcId]] :
              v \in [1..n -> Range(vpcs)]} :
           n \in 0..MaxSubnets}

RawInternetGateway(id, attachedTo) ==
    [InternetGatewayId |-> id,
     Attachments |-> [k \in 1..Len(attachedTo) |-> [VpcId |-> attachedTo[k]]]]

\* DescribeInternetGateways: no gateway, or one gateway attached to v1, to
\* v1 and v2, or to v2 next to an attachment without VPC
RawGatewayLists ==
    {<< >>,
     << RawInternetGateway(Igw1, << "v1" >>) >>,
     << RawInternetGateway(Igw1, << "v1", "v2" >>) >>,
     << RawInternetGateway(Igw1, << NilPtr, "v2" >>) >>}

\* DescribeNatGateways and DescribeSecurityGroups
RawNatAndGroupLists ==
    LET nat == [NatGatewayId |-> Nat1, VpcId |-> "v1"]
        sg(id) == [GroupId |-> id, VpcId |-> "v1"]
    IN  {<< << >>, << >> >>,
         << << nat >>, << sg("sg1") >> >>,
         << << nat >>, << sg("sg1"), sg("sg2") >> >>}

\* DescribeRouteTables: no table, or the main table of v1 with a default
\* route to the internet gateway
RawTableLists ==
    {<< >>,
     << [RouteTableId |-> "rt1", VpcId |-> "v1",
         Associations |-> << [Main |-> TRUE, SubnetId |-> NilPtr] >>,
         Routes |-> << [DestinationCidrBlock |-> DefaultRoute, GatewayId |-> Igw1] >>] >>}

Listings ==
    {ProviderResponse(vpcs, subnets, gateways, extras[1], tables, extras[2], << >>) :
        <<vpcs, subnets>> \in UNION {{<<v, s>> : s \in RawSubnetLists(v)} : v \in RawVpcLists},
        gateways \in RawGatewayLists,
        extras \in RawNatAndGroupLists,
        tables \in RawTableLists}

\* the same raw resources, one collection listed in another order
ReorderedListings(response) ==
    {[response EXCEPT !.Vpcs = vpcs] : vpcs \in Reorderings(response.Vpcs)}
    \cup {[response EXCEPT !.Subnets = subnets] : subnets \in Reorderings(response.Subnets)}
    \cup {[response EXCEPT !.SecurityGroups = groups] :
             groups \in Reorderings(response.SecurityGroups)}

\* the provider after resources were deleted: the last subnet, or the
\* gateways and security groups
ShrunkListings(response) ==
    (IF response.Subnets = << >> THEN {}
     ELSE {[response EXCEPT !.Subnets = SubSeq(@, 1, Len(@) - 1)]})
    \cup {[response EXCEPT !.InternetGateways = << >>, !.NatGateways = << >>,
                           !.SecurityGroups = << >>]}

\* DescribeTransitGateways and ListRoles: two transit gateways, the first
\* with an attachment, and two roles, the second with an attached policy, in
\* a provider with no VPC or with one
SubQueryListings ==
    {[ProviderResponse(vpcs, << >>, << >>, << >>, << >>, << >>,
                       << [RoleId |-> "role1", CreateDate |-> "t1", AttachedPolicies |-> << >>],
                          [RoleId |-> "role2", CreateDate |-> "t1",
                           AttachedPolicies |->
                             << [PolicyName |-> "p", CreateDate |-> "t1",
                                 UpdateDate |-> "t1"] >>] >>)
        EXCEPT !.TransitGateways =
                 << [TransitGatewayId |-> "tgw1",
                     Attachments |-> << [TransitGatewayAttachmentId |-> "att1"] >>],
                    [TransitGatewayId |-> "tgw2", Attachments |-> << >>] >>] :
        vpcs \in {<< >>, << [VpcId |-> "v1"] >>}}

\* the sub-queries of one scan: the attachments of each transit gateway, the
\* attached and inline policies of each role, the details of each attached
\* policy
SubQueryCalls(response) ==
    {FailedCall("DescribeTransitGatewayAttachments", response.TransitGateways[k].TransitGatewayId) :
        k \in 1..Len(response.TransitGateways)}
    \cup {FailedCall(call, response.Roles[k].RoleId) :
             call \in {"ListAttachedRolePolicies", "ListRolePolicies"},
             k \in 1..Len(response.Roles)}
    \cup UNION {{FailedCall("GetPolicy", policy.PolicyName) :
                    policy \in Range(role.AttachedPolicies)} :
                 role \in Range(response.Roles)}

\* the calls that fail during one scan: none, one listing call, up to two
\* sub-queries, or a listing call and a sub-query
FailingCalls(response) ==
    LET listing == {FailedCall(ListingCalls[k][1], "") : k \in 1..Len(ListingCalls)}
        queries == SubQueryCalls(response)
    IN  {{}} \cup {{c} : c \in listing}
             \cup {{c, d} : c \in queries, d \in queries}
             \cup {{c, d} : c \in listing, d \in queries}

\* a provider some of whose calls fail
FailingListings(response) ==
    {[response EXCEPT !.Failed = failed] : failed \in FailingCalls(response)}

\* what the provider answers to the first scan
FirstScans == Listings \cup UNION {FailingListings(l) : l \in SubQueryListings}

\* what the provider answers to the scan after a scan answered `response`
Rescans(response) ==
    ReorderedListings(response) \cup ShrunkListings(response)
        \cup FailingListings(response)

-----------------------------------------------------------------------------
(* Specification of ScanNetwork: two scans of a provider and the comparison
   of their snapshots *)

InitScan ==
    /\ scans = << >>
    /\ baseline = EmptyNetwork /\ current = EmptyNetwork /\ results = << >>
    /\ routeTable = << >> /\ igws = << >> /\ subnetType = ""
    /\ network = EmptyNetwork /\ phase = Idle
    /\ NoWatch

\* what one call of ScanNetwork returns for the responses of the provider:
\* the error and no snapshot (nil), or the snapshot and no error
ScanNetworkReturns(response, n) ==
    [response |-> response,
     err |-> scanError(response),
     snapshot |-> IF scanError(response) = "" THEN ScanNetwork(response, n)
                  ELSE ZeroNetwork]

\* one call of NetworkScanner.ScanNetwork
ScanNetworkStep ==
    /\ Len(scans) < 2
    /\ \E response \in (IF scans = << >> THEN FirstScans ELSE Rescans(scans[1].response)) :
          scans' = Append(scans, ScanNetworkReturns(response, Len(scans) + 1))
    /\ UNCHANGED <<baseline, current, results, routeTable, igws, subnetType,
                   network, phase, watchVars>>

\* Comparator.Compare applied to the snapshots of the two scans, as
\* performScan does when the second scan returned no error
CompareScans ==
    /\ Len(scans) = 2 /\ results = << >>
    /\ scans[1].err = "" /\ scans[2].err = ""
    /\ \E d \in Compare(scans[1].snapshot, scans[2].snapshot) : results' = << d >>
    /\ UNCHANGED <<baseline, current, routeTable, igws, subnetType,
                   network, phase, scanVars, watchVars>>

NextScan == ScanNetworkStep \/ CompareScans

SpecScan == InitScan /\ [][NextScan]_vars

(* Properties of ScanNetwork, checked under SpecScan *)

\* the association lists of a VPC and the collections they refer to
AssociationLists == {"Subnets", "InternetGateways", "NATGateways", "SecurityGroups"}

\* the positions of a collection whose resource refers to the VPC
RefersTo(collection, vpcID) == {k \in 1..Len(collection) : collection[k].VpcID = vpcID}

\* C11: in every snapshot returned by ScanNetwork, each of the lists Subnets,
\* InternetGateways, NATGateways, SecurityGroups of every VPC holds exactly
\* the ids of the resources of that snapshot whose VpcID is the VPC's id:
\* none missing, none extra, none left from an earlier scan.
C11_AssociationsExact ==
    \A s \in 1..Len(scans) :
       LET nw == scans[s].snapshot
       IN  \A i \in 1..Len(nw.VPCs), f \in AssociationLists :
              LET list == nw.VPCs[i][f].elems
                  refs == RefersTo(nw[f], nw.VPCs[i].ID)
              IN  /\ \A k \in refs : \E n \in 1..Len(list) : list[n] = nw[f][k].ID
                  /\ \A n \in 1..Len(list) : \E k \in refs : nw[f][k].ID = list[n]
                  /\ Len(list) = Cardinality(refs)

\* a second scan after the last subnet of a VPC was deleted: the first
\* snapshot lists it, the second lists the subnet left, next to a VPC with
\* security groups
C11_Witness ==
    /\ Len(scans) = 2
    /\ Len(scans[2].response.Subnets) = Len(scans[1].response.Subnets) - 1
    /\ LET old == scans[1].snapshot
           new == scans[2].snapshot
       IN  /\ Len(new.VPCs) = 2 /\ Len(old.Subnets) >= 2
           /\ \E i \in 1..2 : new.VPCs[i].Subnets.elems # << >>
           /\ \E i \in 1..2 : new.VPCs[i].SecurityGroups.elems # << >>
           /\ \E i \in 1..2 :
                 /\ old.Subnets[Len(old.Subnets)].ID \in Range(old.VPCs[i].Subnets.elems)
                 /\ old.Subnets[Len(old.Subnets)].ID \notin Range(new.VPCs[i].Subnets.elems)

\* C12: in every snapshot returned by ScanNetwork no two records of one
\* collection share an id (every raw resource of the response has an id of
\* its own; an internet gateway may carry several attachments).
C12_UniqueIds ==
    \A s \in 1..Len(scans), c \in CollectionNames :
       LET collection == scans[s].snapshot[c]
       IN  \A i, j \in 1..Len(collection) :
              collection[i].ID = collection[j].ID => i = j

\* the two responses list the same raw resources, each collection in some order
SameRawResources(r1, r2) ==
    /\ \A f \in ResponseFields : Len(r1[f]) = Len(r2[f]) /\ Range(r1[f]) = Range(r2[f])
    /\ r1.Failed = r2.Failed

\* C13: when two scans are answered with the same raw resources, listed in a
\* different order within a collection, Compare of the two snapshots returns
\* no Difference.
C13_ListingOrderIrrelevant ==
    (/\ Len(scans) = 2 /\ results # << >>
     /\ SameRawResources(scans[1].response, scans[2].response))
       => results[1] = << >>

-----------------------------------------------------------------------------
(* The working state file: encoding/json applied to scanner.Network
   (json.MarshalIndent in runScan, json.Unmarshal in LoadWorkingState) *)

\* JSON values
JNull == [json |-> "null", v |-> << >>]
JString(s) == [json |-> "string", v |-> s]
JBool(b) == [json |-> "bool", v |-> b]
JNumber(n) == [json |-> "number", v |-> n]
JArray(items) == [json |-> "array", v |-> items]
JObject(members) == [json |-> "object", v |-> members]
\* bytes that are no JSON text
BadSyntax == [json |-> "syntax error", v |-> << >>]

\* the json struct tags of pkg/scanner/models.go (of IAMPolicy: the fields modelled)
JSONTags(structType) ==
    CASE structType = "Network" ->
           [VPCs |-> "vpcs", Subnets |-> "subnets",
            PeeringConnections |-> "peering_connections",
            TransitGateways |-> "transit_gateways",
            InternetGateways |-> "internet_gateways",
            NATGateways |-> "nat_gateways", RouteTables |-> "route_tables",
            SecurityGroups |-> "security_groups",
            NetworkAcls |-> "network_acls", IAMRoles |-> "iam_roles",
            ScanTime |-> "scan_time", Region |-> "region"]
      [] structType = "VPC" ->
           [ID |-> "id", Name |-> "name", CidrBlock |-> "cidr_block",
            State |-> "state", IsDefault |-> "is_default",
            DhcpOptionsID |-> "dhcp_options_id", Tags |-> "tags",
            Subnets |-> "subnets", SecurityGroups |-> "security_groups",
            InternetGateways |-> "internet_gateways",
            NATGateways |-> "nat_gateways", NetworkAcls |-> "network_acls"]
      [] structType = "Subnet" ->
           [ID |-> "id", Name |-> "name", VpcID |-> "vpc_id",
            CidrBlock |-> "cidr_block",
            AvailabilityZone |-> "availability_zone", State |-> "state",
            MapPublicIP |-> "map_public_ip", Tags |-> "tags",
            RouteTableID |-> "route_table_id",
            NetworkAclID |-> "network_acl_id", Type |-> "type"]
      [] structType = "PeeringConnection" ->
           [ID |-> "id", Name |-> "name",
            RequesterVpcID |-> "requester_vpc_id",
            AccepterVpcID |-> "accepter_vpc_id", Status |-> "status",
            Tags |-> "tags"]
      [] structType = "TransitGateway" ->
           [ID |-> "id", Name |-> "name", State |-> "state", Tags |-> "tags",
            Attachments |-> "attachments"]
      [] structType = "InternetGateway" ->
           [ID |-> "id", Name |-> "name", VpcID |-> "vpc_id",
            State |-> "state", Tags |-> "tags"]
      [] structType = "NATGateway" ->
           [ID |-> "id", Name |-> "name", VpcID |-> "vpc_id",
            SubnetID |-> "subnet_id", State |-> "state",
            PublicIP |-> "public_ip", PrivateIP |-> "private_ip",
            ConnectivityType |-> "connectivity_type", Tags |-> "tags"]
      [] structType = "RouteTable" ->
           [ID |-> "id", Name |-> "name", VpcID |-> "vpc_id",
            IsMain |-> "is_main", Tags |-> "tags", Routes |-> "routes",
            Associations |-> "associations"]
      [] structType = "SecurityGroup" ->
           [ID |-> "id", Name |-> "name", Description |-> "description",
            VpcID |-> "vpc_id", Tags |-> "tags",
            IngressRules |-> "ingress_rules", EgressRules |-> "egress_rules"]
      [] structType = "IAMRole" ->
           [ID |-> "id", Name |-> "name", Path |-> "path", Arn |-> "arn",
            Description |-> "description", CreateDate |-> "create_date",
            AssumeRolePolicyDocument |-> "assume_role_policy_document",
            MaxSessionDuration |-> "max_session_duration", Tags |-> "tags",
            AttachedPolicies |-> "attached_policies",
            InlinePolicies |-> "inline_policies"]
      [] structType = "NetworkAcl" ->
           [ID |-> "id", Name |-> "name", VpcID |-> "vpc_id",
            IsDefault |-> "is_default", Tags |-> "tags", Entries |-> "entries",
            Associations |-> "associations"]
      [] structType = "Route" ->
           [DestinationCidr |-> "destination_cidr", GatewayID |-> "gateway_id",
            InstanceID |-> "instance_id",
            NetworkInterfaceID |-> "network_interface_id",
            VpcPeeringID |-> "vpc_peering_id",
            TransitGatewayID |-> "transit_gateway_id", State |-> "state",
            Origin |-> "origin"]
      [] structType = "IAMPolicy" ->
           [PolicyName |-> "policy_name", CreateDate |-> "create_date",
            UpdateDate |-> "update_date"]

FieldOfTag(structType, tag) ==
    CHOOSE f \in DOMAIN JSONTags(structType) : JSONTags(structType)[f] = tag

TagsOf(structType) == {JSONTags(structType)[f] : f \in DOMAIN JSONTags(structType)}

\* the element type of a slice field: []Route, []IAMPolicy, else strings
ElemType(structType, fieldName) ==
    IF structType = "RouteTable" /\ fieldName = "Routes" THEN "Route"
    ELSE IF structType = "IAMRole" /\ fieldName = "AttachedPolicies" THEN "IAMPolicy"
    ELSE "string"

\* the instant of a wall reading: the reading without its monotonic part
stripMonotonic(wall) ==
    IF \E k \in 1..Len(MonotonicWalls) : MonotonicWalls[k] = wall
      THEN WallClock[CHOOSE k \in 1..Len(MonotonicWalls) : MonotonicWalls[k] = wall]
      ELSE wall

\* Time.MarshalJSON writes the instant in RFC 3339 with nanoseconds;
\* Time.UnmarshalJSON parses it: the result has no monotonic reading
marshalTime(t) == JString([layout |-> "RFC3339Nano", instant |-> stripMonotonic(t.wall)])
unmarshalTime(j) == IF j.json = "null" THEN ZeroTime ELSE [wall |-> j.v.instant]

\* an element of a slice field
marshalElem(elemType, e) ==
    IF elemType = "string" THEN JString(e)
    ELSE JObject([tag \in {JSONTags(elemType)[f] : f \in DOMAIN e} |->
                    LET f == FieldOfTag(elemType, tag)
                    IN  IF f \in {"CreateDate", "UpdateDate"} THEN marshalTime(e[f])
                        ELSE JString(e[f])])

unmarshalElem(elemType, j) ==
    IF elemType = "string" THEN j.v
    ELSE [f \in {FieldOfTag(elemType, tag) : tag \in DOMAIN j.v} |->
            IF f \in {"CreateDate", "UpdateDate"}
              THEN unmarshalTime(j.v[JSONTags(elemType)[f]])
              ELSE j.v[JSONTags(elemType)[f]].v]

\* a nil slice is written as null, an empty one as []
marshalSlice_nilAsEmpty(elemType, slice) ==
    JArray([k \in 1..Len(slice.elems) |-> marshalElem(elemType, slice.elems[k])])

marshalSlice(elemType, slice) ==
    IF slice.nil THEN JNull
    ELSE JArray([k \in 1..Len(slice.elems) |-> marshalElem(elemType, slice.elems[k])])

unmarshalSlice(elemType, j) ==
    IF j.json = "null" THEN NilSlice
    ELSE MkSlice([k \in 1..Len(j.v) |-> unmarshalElem(elemType, j.v[k])])

\* a nil map is written as null, an empty one as {}
marshalMap(m) ==
    IF m.nil THEN JNull ELSE JObject([k \in DOMAIN m.kv |-> JString(m.kv[k])])

unmarshalMap(j) ==
    IF j.json = "null" THEN NilMap ELSE MkMap([k \in DOMAIN j.v |-> j.v[k].v])

marshalValue(structType, fieldName, v) ==
    LET kind == FieldKind(structType, fieldName)
    IN  CASE kind = "string" -> JString(v)
          [] kind = "bool" -> JBool(v)
          [] kind = "int32" -> JNumber(v)
          [] kind = "map" -> marshalMap(v)
          [] kind = "slice" -> marshalSlice(ElemType(structType, fieldName), v)
          [] kind = "struct" -> marshalTime(v)

\* null leaves a field at its zero value
unmarshalValue(structType, fieldName, j) ==
    LET kind == FieldKind(structType, fieldName)
    IN  CASE kind = "map" -> unmarshalMap(j)
          [] kind = "slice" -> unmarshalSlice(ElemType(structType, fieldName), j)
          [] kind = "struct" -> unmarshalTime(j)
          [] OTHER -> IF j.json = "null" THEN ZeroValue(kind) ELSE j.v

marshalStruct(structType, r) ==
    JObject([tag \in TagsOf(structType) |->
               LET f == FieldOfTag(structType, tag)
               IN  marshalValue(structType, f, r[f])])

\* a key missing from the object leaves the field at its zero value
unmarshalStruct(structType, j) ==
    [f \in FieldNames(structType) |->
        IF JSONTags(structType)[f] \in DOMAIN j.v
          THEN unmarshalValue(structType, f, j.v[JSONTags(structType)[f]])
          ELSE ZeroValue(FieldKind(structType, f))]

\* the struct type of the resources of a collection field of Network
StructTypeOf(collectionName) ==
    Collections[CHOOSE i \in 1..Len(Collections) : Collections[i][1] = collectionName][3]

\* json.MarshalIndent(network, "", "  "); a collection of length 0 (nil or
\* empty, which compareSlices does not tell apart) is written as null
marshalNetwork(nw) ==
    JObject([tag \in TagsOf("Network") |->
               LET f == FieldOfTag("Network", tag)
               IN  IF f = "ScanTime" THEN marshalTime(nw[f])
                   ELSE IF f = "Region" THEN JString(nw[f])
                   ELSE IF nw[f] = << >> THEN JNull
                   ELSE JArray([k \in 1..Len(nw[f]) |->
                                   marshalStruct(StructTypeOf(f), nw[f][k])])])

unmarshalNetwork(j) ==
    IF j.json = "null" THEN ZeroNetwork
    ELSE [f \in DOMAIN ZeroNetwork |->
            LET tag == JSONTags("Network")[f]
            IN  IF tag \notin DOMAIN j.v \/ j.v[tag].json = "null" THEN ZeroNetwork[f]
                ELSE IF f = "ScanTime" THEN unmarshalTime(j.v[tag])
                ELSE IF f = "Region" THEN j.v[tag].v
                ELSE [k \in 1..Len(j.v[tag].v) |->
                         unmarshalStruct(StructTypeOf(f), j.v[tag].v[k])]]

\* json.Unmarshal returns no error: the text is JSON, its value is null or
\* an object, and the value under each key of Network has the JSON type of
\* the field (checked for the fields of Network itself)
canUnmarshal(j) ==
    /\ j.json \in {"null", "object"}
    /\ j.json = "object" =>
         \A f \in DOMAIN ZeroNetwork :
            LET tag == JSONTags("Network")[f]
            IN  tag \in DOMAIN j.v =>
                  j.v[tag].json \in
                     {"null", IF f \in {"ScanTime", "Region"} THEN "string" ELSE "array"}

ReadError == "failed to read working state file"
ParseError == "failed to parse working state JSON"

\* Comparator.LoadWorkingState: the snapshot and the error it returns
LoadWorkingState(f) ==
    IF ~f.exists THEN [network |-> ZeroNetwork, err |-> ReadError]
    ELSE IF ~canUnmarshal(f.data) THEN [network |-> ZeroNetwork, err |-> ParseError]
    ELSE [network |-> unmarshalNetwork(f.data), err |-> ""]

-----------------------------------------------------------------------------
(* Specification of the working state file: `scan --save-state` writes the
   snapshot of a scan, LoadWorkingState reads it back, Compare is applied to
   the loaded and the written snapshot *)

\* ListRoles: no role, a role without policies, a role with one attached
\* policy; the provider's timestamps are parsed instants
RawRoleLists ==
    {<< >>,
     << [RoleId |-> "role1", CreateDate |-> "t1", AttachedPolicies |-> << >>] >>,
     << [RoleId |-> "role1", CreateDate |-> "t1",
         AttachedPolicies |->
            << [PolicyName |-> "p", CreateDate |-> "t1", UpdateDate |-> "t2"] >>] >>}

PersistListings == {[l EXCEPT !.Roles = roles] : l \in Listings, roles \in RawRoleLists}

InitPersist ==
    /\ network = EmptyNetwork /\ phase = Idle
    /\ baseline = EmptyNetwork /\ current = EmptyNetwork /\ results = << >>
    /\ routeTable = << >> /\ igws = << >> /\ subnetType = ""
    /\ NoScan /\ NoWatch

\* runScan with --save-state: ScanNetwork, json.MarshalIndent, os.WriteFile
\* (which can fail, and then leaves no file)
RunScan ==
    /\ phase = Idle
    /\ \E response \in PersistListings, written \in BOOLEAN :
          /\ network' = ScanNetwork(response, 1)
          /\ file' = IF written THEN [exists |-> TRUE, data |-> marshalNetwork(network')]
                     ELSE file
          /\ phase' = IF written THEN "saved" ELSE "failed"
    /\ UNCHANGED <<baseline, current, results, routeTable, igws, subnetType,
                   scanVars, watcher, state, sigChan, ctxDone, tickerC, reports, returned>>

\* Comparator.LoadWorkingState on the file written
LoadStep ==
    /\ phase = "saved"
    /\ LoadWorkingState(file).err = ""
    /\ baseline' = LoadWorkingState(file).network
    /\ phase' = "loaded"
    /\ UNCHANGED <<current, results, routeTable, igws, subnetType, network,
                   scanVars, watchVars>>

\* Comparator.Compare(load(save(S)), S)
CompareLoaded ==
    /\ phase = "loaded"
    /\ \E d \in Compare(baseline, network) : results' = << d >>
    /\ phase' = "compared"
    /\ UNCHANGED <<baseline, current, routeTable, igws, subnetType, network,
                   scanVars, watchVars>>

NextPersist == RunScan \/ LoadStep \/ CompareLoaded

SpecPersist == InitPersist /\ [][NextPersist]_vars

(* Properties of the working state file, checked under SpecPersist *)

\* two time.Time values denote the same instant (Time.Equal); a monotonic
\* clock reading is local to the process and is not part of the instant
SameInstant(t1, t2) == stripMonotonic(t1.wall) = stripMonotonic(t2.wall)

\* C14: the snapshot loaded from the working state file equals the snapshot
\* written in every collection (every record and field of it) and in its
\* region, its scan time is the instant of the written scan time, the load
\* returns no error, and Compare of the loaded and the written snapshot
\* returns no Difference.
C14_RoundTrip ==
    /\ phase = "saved" => LoadWorkingState(file).err = ""
    /\ phase \in {"loaded", "compared"} =>
          /\ \A c \in CollectionNames \cup {"Region"} : baseline[c] = network[c]
          /\ SameInstant(baseline.ScanTime, network.ScanTime)
    /\ phase = "compared" => results = << << >> >>

\* a snapshot with a VPC that has subnets but no NAT gateway, a route table
\* with a route, and a role with an attached policy, written, loaded and
\* compared; its scan time came from time.Now()
C14_Witness ==
    /\ phase = "compared" /\ results = << << >> >>
    /\ network.ScanTime.wall = MonotonicWalls[1]
    /\ \E i \in 1..Len(baseline.VPCs) :
          /\ baseline.VPCs[i].Subnets.elems # << >>
          /\ baseline.VPCs[i].NATGateways.nil
          /\ ~baseline.VPCs[i].Tags.nil
    /\ \E i \in 1..Len(baseline.RouteTables) : baseline.RouteTables[i].Routes.elems # << >>
    /\ \E i \in 1..Len(baseline.IAMRoles) :
          baseline.IAMRoles[i].AttachedPolicies.elems # << >>

-----------------------------------------------------------------------------
(* Watcher.Watch: the watch run as a state machine *)

\* most cycles (the initial one included) of a watch run
MaxCycles == 3

\* the states of the watch run
ScanningInitial == "scanning (initial)"
Waiting == "waiting"
ScanningPeriodic == "scanning (periodic)"
Stopped == "stopped"

\* what Watch returns
Running == "running"
ReturnedNil == "nil"
LoadError == "failed to load baseline state"
InitialScanFailed == "initial scan failed"
ContextCanceled == "context canceled"

\* `if err != nil` after LoadWorkingState
baselineUnavailable_readErrorOnly(loaded) == loaded.err = ReadError

baselineUnavailable(loaded) == loaded.err # ""

\* the calls performScan makes, in program order: it returns right after
\* ScanNetwork when that failed
callsOf(err) ==
    IF err THEN << "ScanNetwork" >>
    ELSE << "ScanNetwork", "Compare", "PrintDifferences" >>

\* the Difference lists performScan hands to PrintDifferences
forwarded_evenOnFailure(err, diffs) == << diffs >>

forwarded(err, diffs) == IF err THEN << >> ELSE << diffs >>

\* w.performScan(ctx, baseline) for what ScanNetwork returned: the error it
\* returns, the baseline after the call, the calls it made, the scope it
\* passed to ScanNetwork, and what it printed
performScan_replacesBaseline(w, baselineArg, acquired) ==
    IF acquired.err
      THEN {[err |-> TRUE, baseline |-> baselineArg, against |-> baselineArg,
             current |-> acquired.snapshot, differences |-> << >>,
             calls |-> callsOf(TRUE), scope |-> w.vpcID,
             printed |-> forwarded(TRUE, << >>)]}
      ELSE {[err |-> FALSE, baseline |-> acquired.snapshot, against |-> baselineArg,
             current |-> acquired.snapshot, differences |-> d,
             calls |-> callsOf(FALSE), scope |-> w.vpcID,
             printed |-> forwarded(FALSE, d)] :
               d \in Compare(baselineArg, acquired.snapshot)}

performScan(w, baselineArg, acquired) ==
    IF acquired.err
      THEN {[err |-> TRUE, baseline |-> baselineArg, against |-> baselineArg,
             current |-> acquired.snapshot, differences |-> << >>,
             calls |-> callsOf(TRUE), scope |-> w.vpcID,
             printed |-> forwarded(TRUE, << >>)]}
      ELSE {[err |-> FALSE, baseline |-> baselineArg, against |-> baselineArg,
             current |-> acquired.snapshot, differences |-> d,
             calls |-> callsOf(FALSE), scope |-> w.vpcID,
             printed |-> forwarded(FALSE, d)] :
               d \in Compare(baselineArg, acquired.snapshot)}

\* where Watch goes when performScan returned an error: the initial scan
\* makes Watch return, a periodic scan is only reported
afterFailure_alwaysStops(cycleState) == Stopped

afterFailure(cycleState) ==
    IF cycleState = ScanningInitial THEN Stopped ELSE Waiting

\* the cases the select statement can take: one of those that are ready
selectCases_withoutDone(ticks, signals, done) ==
    {c \in {"signal", "tick"} :
        \/ c = "signal" /\ signals > 0
        \/ c = "tick" /\ ticks > 0}

selectCases(ticks, signals, done) ==
    {c \in {"done", "signal", "tick"} :
        \/ c = "done" /\ done
        \/ c = "signal" /\ signals > 0
        \/ c = "tick" /\ ticks > 0}

-----------------------------------------------------------------------------
(* Inputs of the watch run *)

\* the provider while the baseline was scanned, and after a subnet was added
BaselineListing ==
    ProviderResponse(<< [VpcId |-> "v1"] >>, << [SubnetId |-> "s1", VpcId |-> "v1"] >>,
                     << >>, << >>, << >>, << >>, << >>)

ChangedListing ==
    [BaselineListing EXCEPT
        !.Subnets = << [SubnetId |-> "s1", VpcId |-> "v1"],
                       [SubnetId |-> "s2", VpcId |-> "v1"] >>]

\* documents that json.Unmarshal rejects: no JSON text, or a string where
\* the array of VPCs belongs
MalformedDocuments == {BadSyntax, JObject([tag \in {"vpcs"} |-> JString("x")])}

\* the working state file: missing, malformed, the empty object, or written
\* by `scan --save-state`
WatchFiles ==
    {NoFile}
    \cup {[exists |-> TRUE, data |-> d] : d \in MalformedDocuments}
    \cup {[exists |-> TRUE, data |-> JObject(<< >>)],
          [exists |-> TRUE, data |-> marshalNetwork(ScanNetwork(BaselineListing, 1))]}

\* NewWatcher(awsClient, interval, verbose, region, vpcID): the scope is the
\* only field the cycles read
NewWatcher(vpcID) == [vpcID |-> vpcID]

\* the watch runs drawn: every file without a VPC filter, and the saved
\* baseline with the filter --vpc-id v1
WatchRuns ==
    {[file |-> f, vpcID |-> ""] : f \in WatchFiles}
    \cup {[file |-> [exists |-> TRUE,
                     data |-> marshalNetwork(ScanNetwork(BaselineListing, 1))],
           vpcID |-> "v1"]}

\* what ScanNetwork returns to a cycle at the n-th reading of the clock: an
\* error, or the snapshot of the provider
AcquireOutcomes(n) ==
    {[err |-> TRUE, snapshot |-> ZeroNetwork]}
    \cup {[err |-> FALSE, snapshot |-> ScanNetwork(l, n)] :
            l \in {BaselineListing, ChangedListing}}

-----------------------------------------------------------------------------
(* Specification of the watch run *)

InitWatch ==
    /\ \E run \in WatchRuns : file = run.file /\ watcher = NewWatcher(run.vpcID)
    /\ state = Idle /\ sigChan = 0 /\ ctxDone = FALSE /\ tickerC = 0
    /\ reports = << >> /\ returned = Running
    /\ baseline = EmptyNetwork /\ current = EmptyNetwork /\ results = << >>
    /\ routeTable = << >> /\ igws = << >> /\ subnetType = ""
    /\ network = EmptyNetwork /\ phase = Idle
    /\ NoScan

\* Watch up to the call of the initial performScan: load the baseline,
\* signal.Notify, time.NewTicker
WatchStart ==
    /\ state = Idle
    /\ LET loaded == LoadWorkingState(file)
       IN  IF baselineUnavailable(loaded)
             THEN /\ state' = Stopped
                  /\ returned' = LoadError
                  /\ baseline' = baseline
             ELSE /\ state' = ScanningInitial
                  /\ returned' = returned
                  /\ baseline' = loaded.network
    /\ UNCHANGED <<current, results, routeTable, igws, subnetType, network, phase,
                   scanVars, file, watcher, sigChan, ctxDone, tickerC, reports>>

\* the performScan of a cycle returns
CycleReturns(cycleState) ==
    /\ state = cycleState
    /\ \E acquired \in AcquireOutcomes(Len(reports) + 2) :
       \E result \in performScan(watcher, baseline, acquired) :
          /\ baseline' = result.baseline
          /\ reports' = Append(reports,
                [kind |-> IF ~result.err THEN "differences"
                          ELSE IF afterFailure(cycleState) = Stopped
                                 THEN InitialScanFailed ELSE "scan failed",
                 cycle |-> cycleState,
                 against |-> result.against,
                 current |-> result.current,
                 differences |-> result.differences,
                 calls |-> result.calls,
                 scope |-> result.scope,
                 printed |-> result.printed])
          /\ state' = IF result.err THEN afterFailure(cycleState) ELSE Waiting
          /\ returned' = IF result.err /\ afterFailure(cycleState) = Stopped
                           THEN InitialScanFailed ELSE returned
    /\ UNCHANGED <<current, results, routeTable, igws, subnetType, network, phase,
                   scanVars, file, watcher, sigChan, ctxDone, tickerC>>

InitialScanReturns == CycleReturns(ScanningInitial)

PeriodicScanReturns == CycleReturns(ScanningPeriodic)

\* case <-ctx.Done()
SelectDone ==
    /\ state = Waiting
    /\ "done" \in selectCases(tickerC, sigChan, ctxDone)
    /\ state' = Stopped /\ returned' = ContextCanceled
    /\ UNCHANGED <<baseline, current, results, routeTable, igws, subnetType, network,
                   phase, scanVars, file, watcher, sigChan, ctxDone, tickerC, reports>>

\* case <-sigChan
SelectSignal ==
    /\ state = Waiting
    /\ "signal" \in selectCases(tickerC, sigChan, ctxDone)
    /\ sigChan' = sigChan - 1
    /\ state' = Stopped /\ returned' = ReturnedNil
    /\ UNCHANGED <<baseline, current, results, routeTable, igws, subnetType, network,
                   phase, scanVars, file, watcher, ctxDone, tickerC, reports>>

\* case <-ticker.C: a periodic cycle starts
SelectTick ==
    /\ state = Waiting
    /\ "tick" \in selectCases(tickerC, sigChan, ctxDone)
    /\ Len(reports) < MaxCycles
    /\ tickerC' = tickerC - 1
    /\ state' = ScanningPeriodic
    /\ UNCHANGED <<baseline, current, results, routeTable, igws, subnetType, network,
                   phase, scanVars, file, watcher, sigChan, ctxDone, reports, returned>>

\* the ticker fires while it runs (between NewTicker and the deferred Stop);
\* a tick that finds ticker.C full is dropped
Tick_backlog ==
    /\ state \in {ScanningInitial, Waiting, ScanningPeriodic}
    /\ tickerC < 2
    /\ tickerC' = tickerC + 1
    /\ UNCHANGED <<baseline, current, results, routeTable, igws, subnetType, network,
                   phase, scanVars, file, watcher, state, sigChan, ctxDone, reports, returned>>

Tick ==
    /\ state \in {ScanningInitial, Waiting, ScanningPeriodic}
    /\ tickerC = 0
    /\ tickerC' = 1
    /\ UNCHANGED <<baseline, current, results, routeTable, igws, subnetType, network,
                   phase, scanVars, file, watcher, state, sigChan, ctxDone, reports, returned>>

\* SIGINT or SIGTERM is delivered after signal.Notify; a signal that finds
\* sigChan full is dropped
Interrupt ==
    /\ state \in {ScanningInitial, Waiting, ScanningPeriodic}
    /\ sigChan = 0
    /\ sigChan' = 1
    /\ UNCHANGED <<baseline, current, results, routeTable, igws, subnetType, network,
                   phase, scanVars, file, watcher, state, ctxDone, tickerC, reports, returned>>

\* the caller cancels the governing context
Cancel ==
    /\ state # Stopped
    /\ ~ctxDone
    /\ ctxDone' = TRUE
    /\ UNCHANGED <<baseline, current, results, routeTable, igws, subnetType, network,
                   phase, scanVars, file, watcher, state, sigChan, tickerC, reports, returned>>

NextWatch ==
    \/ WatchStart
    \/ InitialScanReturns
    \/ PeriodicScanReturns
    \/ SelectDone
    \/ SelectSignal
    \/ SelectTick
    \/ Tick
    \/ Interrupt
    \/ Cancel

SpecWatch == InitWatch /\ [][NextWatch]_vars

\* the step by which the performScan of the cycle in flight returns
CycleEnds ==
    /\ state \in {ScanningInitial, ScanningPeriodic}
    /\ state' \in {Waiting, Stopped}

\* Watch gets to run, every cycle in flight returns, the ticker keeps
\* firing, and a select case that is ready again and again is taken (the
\* runtime picks among the ready cases at random)
SpecWatchFair ==
    /\ SpecWatch
    /\ WF_vars(WatchStart)
    /\ WF_state(CycleEnds)
    /\ WF_vars(Tick)
    /\ SF_vars(SelectDone)
    /\ SF_vars(SelectSignal)

(* Properties of the watch run, checked under SpecWatch *)

\* the baseline cannot be loaded: the file is missing, or its content does
\* not parse into the snapshot shape
Unloadable ==
    \/ ~file.exists
    \/ file.data.json = "syntax error"
    \/ /\ file.data.json = "object" /\ "vpcs" \in DOMAIN file.data.v
       /\ file.data.v["vpcs"].json = "string"

\* the baseline as LoadWorkingState returned it at the start of the run
LoadedBaseline == LoadWorkingState(file).network

LastReport(r) == r[Len(r)]

\* C15: when the baseline cannot be loaded, Watch returns the load error
\* straight from Idle: it never is in a Scanning state or in Waiting, no
\* cycle reports anything, and no baseline is held.
C15_BaselineLoadFatal ==
    Unloadable =>
       /\ state \in {Idle, Stopped}
       /\ reports = << >>
       /\ baseline = EmptyNetwork
       /\ returned = IF state = Stopped THEN LoadError ELSE Running

\* Watch returned the load error for a file that exists and holds JSON of
\* the wrong shape, while the context was cancelled
C15_Witness ==
    /\ file.exists /\ file.data.json = "object" /\ Unloadable
    /\ state = Stopped /\ returned = LoadError /\ ctxDone

\* C16: after a successful load the initial cycle starts at once, without
\* a tick being taken; periodic cycles start only from Waiting, so none
\* starts before the initial cycle returned; the states follow Idle,
\* Scanning(initial), Waiting, Scanning(periodic), Waiting, ..., Stopped.
C16_InitialCycleFirst ==
    [][/\ (state = Idle /\ state' # Idle /\ ~Unloadable)
             => (state' = ScanningInitial /\ tickerC' = tickerC)
       /\ state' = ScanningInitial => state \in {Idle, ScanningInitial}
       /\ state = ScanningInitial => state' \in {ScanningInitial, Waiting}
       /\ state' = ScanningPeriodic => state \in {Waiting, ScanningPeriodic}
       /\ state = ScanningPeriodic => state' \in {ScanningPeriodic, Waiting}
       /\ state = Waiting => state' \in {Waiting, ScanningPeriodic, Stopped}
       /\ state = Stopped => state' = Stopped
       /\ (reports = << >> /\ reports' # reports)
             => LastReport(reports').cycle = ScanningInitial]_vars

\* C17: once loaded, the baseline held by the run is the loaded one in
\* every state, and every cycle, whatever the cycles before it did, was
\* diffed against it: its Difference list is one Compare returns for the
\* loaded baseline and the snapshot the cycle acquired.
C17_BaselineUnchanged ==
    /\ (~Unloadable /\ state # Idle) => baseline = LoadedBaseline
    /\ \A k \in 1..Len(reports) :
          /\ reports[k].against = LoadedBaseline
          /\ reports[k].kind = "differences"
                => reports[k].differences \in Compare(LoadedBaseline, reports[k].current)

\* three cycles against the same baseline: one reported differences, one
\* failed, one reported none
C17_Witness ==
    /\ Len(reports) = 3 /\ baseline = LoadedBaseline /\ Len(baseline.VPCs) > 0
    /\ reports[1].kind = "differences" /\ reports[1].differences # << >>
    /\ reports[2].kind = "scan failed"
    /\ reports[3].kind = "differences" /\ reports[3].differences = << >>

\* C18: a periodic cycle always returns to Waiting with Watch still running,
\* whether its acquisition failed (which is reported) or succeeded (its
\* Difference list is reported); in Waiting a pending tick can be taken,
\* and a tick taken starts a cycle.
C18_PeriodicFailureRecoverable ==
    [][/\ (state = ScanningPeriodic /\ state' # state)
             => /\ state' = Waiting /\ returned' = Running
                /\ Len(reports') = Len(reports) + 1
                /\ LastReport(reports').kind \in {"scan failed", "differences"}
                /\ LastReport(reports').kind = "differences"
                      => LastReport(reports').differences
                            \in Compare(baseline, LastReport(reports').current)
       /\ (state = Waiting /\ tickerC > 0 /\ Len(reports) < MaxCycles)
             => ENABLED SelectTick
       /\ (state = Waiting /\ tickerC' < tickerC) => state' = ScanningPeriodic]_vars

\* a periodic cycle failed, the next tick started a cycle, and that cycle
\* reported a Difference list
C18_Witness ==
    /\ state = Waiting /\ returned = Running /\ Len(reports) = 3
    /\ reports[2].cycle = ScanningPeriodic /\ reports[2].kind = "scan failed"
    /\ reports[3].cycle = ScanningPeriodic /\ reports[3].kind = "differences"
    /\ reports[3].differences # << >>

\* C19: when the acquisition of the initial cycle fails, the failure is
\* reported, the run enters Waiting and Watch keeps running.
C19_InitialFailureRecoverable ==
    [][(/\ state = ScanningInitial /\ reports' # reports
        /\ LastReport(reports').kind # "differences")
          => (state' = Waiting /\ returned' = Running)]_vars

(* Property of the watch run, checked under SpecWatchFair *)

\* C20: once a signal is buffered in sigChan or the context is cancelled,
\* Watch eventually returns (Stopped); after that the state, the reports
\* and the returned value never change, so no cycle starts.
C20_EventuallyStopped ==
    /\ (sigChan > 0 \/ ctxDone) ~> (state = Stopped)
    /\ [][state = Stopped
            => (state' = Stopped /\ reports' = reports /\ returned' = returned)]_vars

\* Watch returned on cancellation after a periodic cycle, with a tick
\* still pending in ticker.C
C20_Witness ==
    /\ state = Stopped /\ returned = ContextCanceled /\ ctxDone
    /\ tickerC = 1 /\ Len(reports) >= 2
    /\ reports[2].cycle = ScanningPeriodic

-----------------------------------------------------------------------------
(* Exit status: main *)

\* main: a nil error from cmd.Execute lets main return (exit status 0), any
\* other error ends in log.Fatal (exit status 1)
exitStatus_cancelIsGraceful(err) ==
    IF err \in {ReturnedNil, ContextCanceled} THEN 0 ELSE 1

exitStatus(err) == IF err = ReturnedNil THEN 0 ELSE 1

(* Further properties of the watch run, checked under SpecWatch *)

Scanning == {ScanningInitial, ScanningPeriodic}

\* C21: Watch stops on an interrupt or a cancellation only from Idle or
\* Waiting, never while a cycle is in flight; a cycle in flight ends only
\* by its own return, which adds its report; and when the context is
\* already cancelled (or a signal already pending) as Watch starts, no
\* cycle is begun.
C21_CooperativeCancellation ==
    [][/\ (state # Stopped /\ returned' \in {ReturnedNil, ContextCanceled})
             => state \in {Idle, Waiting}
       /\ (state \in Scanning /\ state' # state)
             => Len(reports') = Len(reports) + 1
       /\ (state = Idle /\ (ctxDone \/ sigChan > 0))
             => state' \notin Scanning]_vars

\* C22: Watch returns nil, and the process exits with status zero, exactly
\* when it stopped by taking a signal from sigChan; it returns the load
\* error when it stopped from Idle, "initial scan failed" when it stopped
\* from the initial cycle, and the context's error when it stopped on a
\* cancelled context, each with a non-zero exit status.
C22_NilOnlyOnInterrupt ==
    [][(state # Stopped /\ state' = Stopped) =>
          /\ returned = Running /\ returned' # Running
          /\ returned' = ReturnedNil <=> sigChan' < sigChan
          /\ exitStatus(returned') = 0 <=> sigChan' < sigChan
          /\ state = Idle => returned' = LoadError
          /\ state = ScanningInitial => returned' = InitialScanFailed
          /\ (state = Waiting /\ sigChan' = sigChan)
                => (ctxDone /\ returned' = ContextCanceled)]_vars

\* Watch returned nil on a signal although the context was cancelled and a
\* tick was pending as well
C22_Witness ==
    /\ state = Stopped /\ returned = ReturnedNil /\ exitStatus(returned) = 0
    /\ ctxDone /\ tickerC = 1 /\ sigChan = 0 /\ Len(reports) >= 2

\* C23: a cycle that acquired a snapshot called ScanNetwork, Compare and
\* PrintDifferences in that order and handed PrintDifferences the list
\* Compare returned for the baseline and that snapshot, once; a cycle whose
\* acquisition failed called ScanNetwork only and handed PrintDifferences
\* nothing (no empty list either); every cycle passed ScanNetwork the
\* scope of the Watcher, which never changes.
C23_CycleOrder ==
    [][/\ watcher' = watcher
       /\ reports' # reports =>
            LET r == LastReport(reports')
            IN  /\ reports' = Append(reports, r)
                /\ r.scope = watcher.vpcID
                /\ r.against = baseline
                /\ IF r.kind = "differences"
                     THEN /\ r.calls = << "ScanNetwork", "Compare", "PrintDifferences" >>
                          /\ r.differences \in Compare(baseline, r.current)
                          /\ r.printed = << r.differences >>
                     ELSE /\ r.calls = << "ScanNetwork" >>
                          /\ r.printed = << >>]_vars

\* a run filtered to VPC v1 in which one cycle failed and another printed
\* an empty Difference list
C23_Witness ==
    /\ watcher.vpcID = "v1" /\ Len(reports) = 3
    /\ reports[2].kind = "scan failed" /\ reports[2].printed = << >>
    /\ reports[3].kind = "differences" /\ reports[3].printed = << << >> >>
    /\ \A k \in 1..3 : reports[k].scope = "v1"

\* C27: a cycle starts only from Idle or Waiting, that is when no cycle is
\* in flight, and a periodic one only by taking the pending tick after the
\* cycle before it has reported; while a cycle is in flight nothing but
\* its own return changes the state; ticker.C never holds more than one
\* tick, so after a cycle during which the ticker fired one tick is
\* pending, and taking it leaves none.
C27_CyclesNeverOverlap ==
    [][/\ tickerC \in 0..1 /\ tickerC' \in 0..1
       /\ (state' \in Scanning /\ state' # state)
             => (state \in {Idle, Waiting} /\ reports' = reports)
       /\ (state' = ScanningPeriodic /\ state' # state)
             => /\ state = Waiting /\ Len(reports) >= 1
                /\ tickerC = 1 /\ tickerC' = 0
       /\ (state \in Scanning /\ state' # state)
             => /\ state' \in {Waiting, Stopped}
                /\ Len(reports') = Len(reports) + 1
                /\ LastReport(reports').cycle = state]_vars

\* a periodic cycle is in flight after an earlier periodic cycle, and the
\* ticker has fired again meanwhile: one tick is pending
C27_Witness ==
    /\ state = ScanningPeriodic /\ tickerC = 1
    /\ Len(reports) = 2 /\ reports[2].cycle = ScanningPeriodic

-----------------------------------------------------------------------------
(* Further properties of the diff engine, checked under SpecCompare *)

\* the list-valued compared fields of a struct type
SliceFields(structType) ==
    {f \in ComparedFields(structType) : FieldKind(structType, f) = "slice"}

\* positions in the detail list of the lines about field f, and of those
\* among them that say `what`
LinesAbout(details, f) ==
    {n \in 1..Len(details) : Len(details[n].path) >= 1 /\ details[n].path[1] = f}
LinesSaying(details, f, what) ==
    {n \in LinesAbout(details, f) : details[n].what = what}

\* C24: when a list field of an id held once by both collections differs
\* in length or in an element, the one Modified Difference of that id has,
\* about that field, exactly one "slice contents changed" line, one
\* "length changed" line giving both lengths if the lengths differ and
\* none if they are equal, and no other line: none for an element.
C24_ListsOpaque ==
    called =>
      \A i \in CollIndex :
        LET b == baseline[Collections[i][1]]
            c == current[Collections[i][1]]
            label == Collections[i][2]
        IN  \A id \in IdsOf(b) \cap IdsOf(c) :
              (Once(b, id) /\ Once(c, id)) =>
                \A f \in SliceFields(Collections[i][3]) :
                  LET old == TheOne(b, id)[f].elems
                      new == TheOne(c, id)[f].elems
                  IN  old # new =>
                        /\ Cardinality(Reported(differences, Modified, label, id)) = 1
                        /\ \A k \in Reported(differences, Modified, label, id) :
                             LET details == differences[k].Details
                                 contents == LinesSaying(details, f, "slice contents changed")
                                 lengths == LinesSaying(details, f, "length changed")
                             IN  /\ Cardinality(contents) = 1
                                 /\ Cardinality(lengths) = IF Len(old) # Len(new) THEN 1 ELSE 0
                                 /\ LinesAbout(details, f) = contents \cup lengths
                                 /\ \A n \in LinesAbout(details, f) :
                                       details[n].path = << f >> /\ details[n].key = ""
                                 /\ \A n \in lengths :
                                       /\ details[n].old = Itoa(Len(old))
                                       /\ details[n].new = Itoa(Len(new))

\* a list field of one id holds one element on both sides, but not the same
\* one, and the Modified Difference says so in a single line
C24_Witness ==
    /\ called
    /\ \E i \in CollIndex :
          LET b == baseline[Collections[i][1]]
              c == current[Collections[i][1]]
          IN  /\ Len(b) = 1 /\ Len(c) = 1 /\ b[1].ID = c[1].ID
              /\ \E f \in SliceFields(Collections[i][3]) :
                    /\ Len(b[1][f].elems) = 1 /\ Len(c[1][f].elems) = 1
                    /\ b[1][f].elems # c[1][f].elems
    /\ Len(differences) = 1 /\ differences[1].Type = Modified
    /\ Len(differences[1].Details) = 1
    /\ differences[1].Details[1].what = "slice contents changed"

\* C28: the list Compare returns holds at most one Difference for a resource
\* type and id, whatever kinds the Differences have, also when an id occurs
\* more than once in a collection; and every Difference is about an id of
\* the two collections of its type.
C28_OneDifferencePerId ==
    called =>
      /\ \A i \in CollIndex :
            \A id \in IdsOf(baseline[Collections[i][1]]) \cup IdsOf(current[Collections[i][1]]) :
               Cardinality(ReportedAny(differences, Collections[i][2], id)) <= 1
      /\ \A k \in 1..Len(differences) :
            \E i \in CollIndex :
               /\ differences[k].ResourceType = Collections[i][2]
               /\ differences[k].ResourceID
                     \in IdsOf(baseline[Collections[i][1]]) \cup IdsOf(current[Collections[i][1]])

\* an id that occurs twice in the baseline collection and once, changed, in
\* the current one is reported once, as Modified, next to an Added id
C28_Witness ==
    /\ called
    /\ \E i \in CollIndex :
          LET b == baseline[Collections[i][1]]
              c == current[Collections[i][1]]
          IN  \E id \in IdsOf(b) \cap IdsOf(c) :
                /\ Cardinality(Occurrences(b, id)) = 2
                /\ Cardinality(Reported(differences, Modified, Collections[i][2], id)) = 1
                /\ Cardinality(ReportedAny(differences, Collections[i][2], id)) = 1
    /\ \E k \in 1..Len(differences) : differences[k].Type = Added

\* the <<resource type, id>> pairs list d reports with the given kind
KindIds(d, kind) ==
    {<<d[k].ResourceType, d[k].ResourceID>> : k \in {j \in 1..Len(d) : d[j].Type = kind}}

\* C29: for every list Compare can return for the snapshots in the other
\* order, the ids it reports Removed are those reported Added here, the ids
\* it reports Added are those reported Removed here, and it reports the
\* same ids Modified.
C29_Antisymmetric ==
    called =>
      \A back \in Compare(current, baseline) :
         /\ KindIds(differences, Added) = KindIds(back, Removed)
         /\ KindIds(differences, Removed) = KindIds(back, Added)
         /\ KindIds(differences, Modified) = KindIds(back, Modified)

\* a resource reported Modified only because a key of its Tags is gone,
\* which in the other direction is a key added
C29_Witness ==
    /\ called /\ Len(differences) = 1 /\ differences[1].Type = Modified
    /\ Len(differences[1].Details) = 1
    /\ differences[1].Details[1].what = "key removed"
    /\ \A back \in Compare(current, baseline) :
          /\ Len(back) = 1 /\ Len(back[1].Details) = 1
          /\ back[1].Details[1].what = "key added with value"

-----------------------------------------------------------------------------
(* Further properties of the derivation steps, checked under SpecDerive *)

\* collection c of network nw2 holds the records of nw1, in the same
\* order, which differ at most in the given fields
SameButFields(nw1, nw2, c, structType, fields) ==
    /\ Len(nw2[c]) = Len(nw1[c])
    /\ \A k \in 1..Len(nw1[c]) :
          \A f \in FieldNames(structType) \ fields : nw2[c][k][f] = nw1[c][k][f]

\* C25: the step of updateSubnetTypes leaves every collection but Subnets,
\* the scan time and the region as they are, and the subnets are the same
\* records in the same order but for Type and RouteTableID; the step of
\* updateVPCAssociations leaves everything but VPCs as it is, and the VPCs
\* are the same records in the same order but for the lists Subnets,
\* InternetGateways, NATGateways and SecurityGroups.
C25_DerivedFieldsOnly ==
    [][/\ (phase = "scanned" /\ phase' = "typed")
             => /\ \A c \in DOMAIN network \ {"Subnets"} : network'[c] = network[c]
                /\ SameButFields(network, network', "Subnets", "Subnet",
                                 {"Type", "RouteTableID"})
       /\ (phase = "typed" /\ phase' = "associated")
             => /\ \A c \in DOMAIN network \ {"VPCs"} : network'[c] = network[c]
                /\ SameButFields(network, network', "VPCs", "VPC", AssociationLists)]_vars

\* both steps were taken on a network with subnets, route tables and an
\* internet gateway: a subnet got a route table and the type public, and
\* VPC v1 got its lists
C25_Witness ==
    /\ phase = "associated"
    /\ Len(network.RouteTables) >= 1 /\ Len(network.InternetGateways) = 1
    /\ \E k \in 1..Len(network.Subnets) :
          network.Subnets[k].RouteTableID # "" /\ network.Subnets[k].Type = "public"
    /\ network.VPCs[1].Subnets.elems # << >>
    /\ network.VPCs[1].SecurityGroups.elems = << "sg1" >>
    /\ network.VPCs[2].SecurityGroups.nil

\* the positions of the route tables associated with the subnet, and of the
\* main route tables of the subnet's VPC
AssociatedTables(nw, subnet) ==
    {t \in 1..Len(nw.RouteTables) : subnet.ID \in Range(nw.RouteTables[t].Associations.elems)}
MainTables(nw, subnet) ==
    {t \in 1..Len(nw.RouteTables) :
        nw.RouteTables[t].IsMain /\ nw.RouteTables[t].VpcID = subnet.VpcID}
First(S) == CHOOSE t \in S : \A u \in S : t <= u

\* C26: updateSubnetTypes sets the RouteTableID of a subnet to the id of
\* the first route table associated with the subnet if there is one,
\* otherwise to the id of the first main route table of the subnet's own
\* VPC if there is one, and otherwise leaves it empty; the Type is the one
\* determineSubnetType gives for that table.
C26_RouteTableResolution ==
    [][(phase = "scanned" /\ phase' = "typed") =>
          \A k \in 1..Len(network.Subnets) :
             LET subnet == network.Subnets[k]
                 explicit == AssociatedTables(network, subnet)
                 mains == MainTables(network, subnet)
                 after == network'.Subnets[k]
                 resolvesTo(t) ==
                    /\ after.RouteTableID = network.RouteTables[t].ID
                    /\ after.Type = determineSubnetType(network.RouteTables[t],
                                                        network.InternetGateways)
             IN  /\ subnet.RouteTableID = ""
                 /\ IF explicit # {} THEN resolvesTo(First(explicit))
                    ELSE IF mains # {} THEN resolvesTo(First(mains))
                    ELSE after.RouteTableID = "" /\ after.Type = "isolated"]_vars

\* subnet s1 of VPC v1 is associated with the second route table, a table
\* of VPC v2, while the first table is the main table of v1: s1 got the
\* second table; another subnet of v1 got the main table
C26_Witness ==
    /\ phase = "typed" /\ Len(network.RouteTables) = 2 /\ Len(network.Subnets) = 2
    /\ network.RouteTables[1].IsMain /\ network.RouteTables[1].VpcID = "v1"
    /\ network.RouteTables[2].VpcID = "v2"
    /\ network.Subnets[1].VpcID = "v1" /\ network.Subnets[2].VpcID = "v1"
    /\ AssociatedTables(network, network.Subnets[1]) = {2}
    /\ network.Subnets[1].RouteTableID = network.RouteTables[2].ID
    /\ network.Subnets[2].RouteTableID = network.RouteTables[1].ID

-----------------------------------------------------------------------------
(* Failing provider calls, checked under SpecScan *)

\* the ids of a list of resources, in list order
idList(collection, field) == [k \in 1..Len(collection) |-> collection[k][field]]

\* the listing calls ScanNetwork makes for a provider
madeListingCalls(response) ==
    {ListingCalls[k][1] : k \in {j \in 1..Len(ListingCalls) :
                                    ListingCalls[j][3] => Len(response.Vpcs) > 0}}

\* the transit gateways and roles of a provider whose own sub-query fails
tgwsUnfetched(response) ==
    {tgw.TransitGatewayId : tgw \in {t \in Range(response.TransitGateways) :
        fails(response, "DescribeTransitGatewayAttachments", t.TransitGatewayId)}}
rolesUnfetched(response) ==
    {role.RoleId : role \in {r \in Range(response.Roles) :
        \/ fails(response, "ListAttachedRolePolicies", r.RoleId)
        \/ fails(response, "ListRolePolicies", r.RoleId)}}

\* the Removed entries of a Difference list about one resource
RemovedEntries(d, resourceType, id) ==
    {k \in 1..Len(d) : /\ d[k].Type = Removed
                       /\ d[k].ResourceType = resourceType
                       /\ d[k].ResourceID = id}

\* C30: a scan fails exactly when a listing call it makes fails, and then it
\* returns an error and no snapshot. Otherwise it returns a snapshot and no
\* error, whatever sub-queries failed, and the snapshot holds, in listing
\* order, exactly the transit gateways whose attachments were fetched and the
\* roles whose attached and inline policies were listed. A transit gateway
\* or role of the first snapshot that the provider still lists in the second
\* scan, but whose sub-query failed there, is reported Removed, once.
C30_SubQueryFailureOmits ==
    /\ \A s \in 1..Len(scans) :
          LET response == scans[s].response
              snapshot == scans[s].snapshot
          IN  IF \E call \in madeListingCalls(response) : fails(response, call, "")
                THEN scans[s].err # "" /\ snapshot = ZeroNetwork
                ELSE /\ scans[s].err = "" /\ snapshot # ZeroNetwork
                     /\ idList(snapshot.TransitGateways, "ID")
                           = SelectSeq(idList(response.TransitGateways, "TransitGatewayId"),
                                       LAMBDA id : id \notin tgwsUnfetched(response))
                     /\ idList(snapshot.IAMRoles, "ID")
                           = SelectSeq(idList(response.Roles, "RoleId"),
                                       LAMBDA id : id \notin rolesUnfetched(response))
    /\ results # << >> =>
          /\ \A id \in Range(idList(scans[1].snapshot.TransitGateways, "ID"))
                          \cap tgwsUnfetched(scans[2].response) :
                Cardinality(RemovedEntries(results[1], "TransitGateway", id)) = 1
          /\ \A id \in Range(idList(scans[1].snapshot.IAMRoles, "ID"))
                          \cap rolesUnfetched(scans[2].response) :
                Cardinality(RemovedEntries(results[1], "IAMRole", id)) = 1

\* the second scan returned a snapshot although the attachments of a transit
\* gateway and the policies of a role could not be fetched, and both, still
\* listed by the provider, are reported Removed against the first snapshot
C30_Witness ==
    /\ Len(scans) = 2 /\ results # << >>
    /\ scans[2].err = ""
    /\ \E tgw \in Range(scans[2].response.TransitGateways) :
          /\ tgw.TransitGatewayId \in tgwsUnfetched(scans[2].response)
          /\ RemovedEntries(results[1], "TransitGateway", tgw.TransitGatewayId) # {}
    /\ \E role \in Range(scans[2].response.Roles) :
          /\ role.RoleId \in rolesUnfetched(scans[2].response)
          /\ RemovedEntries(results[1], "IAMRole", role.RoleId) # {}

====
